---------------------------- MODULE Spec2Model ----------------------------
(***************************************************************************)
(* Transcript format detector and normaliser of the meeting hub:          *)
(* src/src/lib/teams.ts (client) and src/api/upload.ts (server).           *)
(*                                                                         *)
(* Transcripts are TLA+ strings; TLC evaluates Len, SubSeq, Head, Tail and *)
(* \o on them, so every regular expression of the source is written out    *)
(* as a matcher over character positions.                                  *)
(***************************************************************************)
EXTENDS Integers, Sequences, FiniteSets, TLC

VARIABLES
    parts,      \* the lines the input was assembled from (history of the input)
    content,    \* the string handed to the function under test
    op,         \* which function has been applied to content ("none" before)
    out,        \* what it returned
    scan,       \* the parser loop that is running: its lines, position and locals
    meetingsTable,  \* the rows the upload handler has inserted into meetings
    modal,      \* the state of the upload modal (its useState cells)
    store,      \* the client store: meetings and action items
    pending     \* the modal's async calls that are suspended at an await

vars == <<parts, content, op, out, scan, meetingsTable, modal, store, pending>>

---------------------------------------------------------------------------
(* Characters and JavaScript string primitives                             *)

Digit == {"0", "1", "2", "3", "4", "5", "6", "7", "8", "9"}
UpperAlpha == "ABCDEFGHIJKLMNOPQRSTUVWXYZ"
LowerAlpha == "abcdefghijklmnopqrstuvwxyz"
Upper == {SubSeq(UpperAlpha, i, i) : i \in 1..26}
Lower == {SubSeq(LowerAlpha, i, i) : i \in 1..26}
Whitespace == {" ", "\n", "\t", "\r"}
LineTerminator == {"\n", "\r"}
\* [a-zA-Z'-]
NameChar == Upper \cup Lower \cup {"'", "-"}

positionOf(s, c) == CHOOSE i \in 1..Len(s) : SubSeq(s, i, i) = c
includesChar(s, c) == \E i \in 1..Len(s) : SubSeq(s, i, i) = c

\* Printable ASCII in code-unit order (Array.prototype.sort compares by code
\* unit), in stretches that leave out the double quote (34), the backslash
\* (92) and the backtick (96)
AsciiLow == " !"
AsciiMid == "#$%&'()*+,-./0123456789:;<=>?@ABCDEFGHIJKLMNOPQRSTUVWXYZ["
AsciiHigh == "]^_"
AsciiTop == "abcdefghijklmnopqrstuvwxyz{|}~"

Char(s, i) == SubSeq(s, i, i)

\* code unit of a character: \t = 9, \n = 10, \r = 13, " " = 32, "#" = 35, "]" = 93, "a" = 97
CodeUnit(c) ==
    IF c = "\t" THEN 9
    ELSE IF c = "\n" THEN 10
    ELSE IF c = "\r" THEN 13
    ELSE IF includesChar(AsciiLow, c) THEN 31 + positionOf(AsciiLow, c)
    ELSE IF includesChar(AsciiMid, c) THEN 34 + positionOf(AsciiMid, c)
    ELSE IF includesChar(AsciiHigh, c) THEN 92 + positionOf(AsciiHigh, c)
    ELSE 96 + positionOf(AsciiTop, c)

ToLowerChar(c) ==
    IF c \in Upper
    THEN Char(LowerAlpha, CHOOSE i \in 1..26 : Char(UpperAlpha, i) = c)
    ELSE c

Min(S) == CHOOSE x \in S : \A y \in S : x <= y

\* s.trim(): the recursion is as deep as the blanks at the two ends
RECURSIVE trimStart(_)
trimStart(s) ==
    IF s # "" /\ Head(s) \in Whitespace THEN trimStart(Tail(s)) ELSE s

RECURSIVE trimEnd(_)
trimEnd(s) ==
    IF s # "" /\ Char(s, Len(s)) \in Whitespace
    THEN trimEnd(SubSeq(s, 1, Len(s) - 1))
    ELSE s

trim(s) == trimEnd(trimStart(s))

\* s.substring(i - 1): the rest of s from position i on
From(s, i) == SubSeq(s, i, Len(s))

startsWithAt(s, p, i) ==
    i >= 1 /\ i + Len(p) - 1 <= Len(s) /\ SubSeq(s, i, i + Len(p) - 1) = p

startsWith(s, p) == startsWithAt(s, p, 1)

\* first position >= i where p occurs in s, 0 when there is none
indexFrom(s, p, i) ==
    LET hits == {k \in i..(Len(s) - Len(p) + 1) : SubSeq(s, k, k + Len(p) - 1) = p}
    IN  IF hits = {} THEN 0 ELSE Min(hits)

includes(s, p) == \E i \in 1..(Len(s) - Len(p) + 1) : SubSeq(s, i, i + Len(p) - 1) = p

\* p, given in lower case, occurs at position i of s in any letter case
startsWithAtIgnoreCase(s, p, i) ==
    /\ i >= 1
    /\ i + Len(p) - 1 <= Len(s)
    /\ \A k \in 1..Len(p) : ToLowerChar(Char(s, i + k - 1)) = Char(p, k)

\* /p/i.test(s) for a literal p given in lower case
includesIgnoreCase(s, p) ==
    \E i \in 1..(Len(s) - Len(p) + 1) : startsWithAtIgnoreCase(s, p, i)

\* s.split(sep) for a non-empty literal separator
RECURSIVE split(_, _)
split(s, sep) ==
    LET n == indexFrom(s, sep, 1)
    IN  IF n = 0 THEN <<s>>
        ELSE <<SubSeq(s, 1, n - 1)>> \o split(From(s, n + Len(sep)), sep)

\* parts.join(sep)
RECURSIVE join(_, _)
join(ss, sep) ==
    IF ss = <<>> THEN ""
    ELSE IF Len(ss) = 1 THEN ss[1]
    ELSE ss[1] \o sep \o join(Tail(ss), sep)

\* s.replace(/p/g, '') for a literal p
RECURSIVE removeAll(_, _)
removeAll(s, p) ==
    LET n == indexFrom(s, p, 1)
    IN  IF n = 0 THEN s
        ELSE SubSeq(s, 1, n - 1) \o removeAll(From(s, n + Len(p)), p)

\* position after the longest run of characters of class C that starts at i
RECURSIVE runEnd(_, _, _)
runEnd(s, i, C) ==
    IF i >= 1 /\ i <= Len(s) /\ Char(s, i) \in C THEN runEnd(s, i + 1, C) ELSE i

\* s matches the template t at position i: a "d" of t stands for \d, every
\* other character of t for itself
matchTemplate(s, i, t) ==
    /\ i >= 1
    /\ i + Len(t) - 1 <= Len(s)
    /\ \A k \in 1..Len(t) :
         IF Char(t, k) = "d" THEN Char(s, i + k - 1) \in Digit
         ELSE Char(s, i + k - 1) = Char(t, k)

\* ^ under the m flag
lineStart(s, i) == i = 1 \/ (i >= 2 /\ i <= Len(s) + 1 /\ Char(s, i - 1) \in LineTerminator)

\* $ under the m flag
lineEnd(s, i) == i = Len(s) + 1 \/ (i >= 1 /\ i <= Len(s) /\ Char(s, i) \in LineTerminator)

---------------------------------------------------------------------------
(* Format detection: detectFormat (server), detectTranscriptFormat (client) *)

Labels == {"vtt", "srt", "teams-text", "plain"}

\* trimmed.startsWith('WEBVTT') || (trimmed.includes('\n00:') && trimmed.includes(' --> '))
vttSignature(trimmed) ==
    \/ startsWith(trimmed, "WEBVTT")
    \/ (includes(trimmed, "\n00:") /\ includes(trimmed, " --> "))

SrtTime == "dd:dd:dd,ddd"

\* /^\d+\s*\n\d{2}:\d{2}:\d{2},\d{3}\s*-->\s*\d{2}:\d{2}:\d{2},\d{3}/m matched at p
srtCueAt(s, p) ==
    LET d == runEnd(s, p, Digit)          \* \d+
        w == runEnd(s, d, Whitespace)     \* the longest \s*
    IN  /\ lineStart(s, p)
        /\ d > p
        /\ \E q \in d..(w - 1) :          \* \s* gives back as far as a \n
              /\ Char(s, q) = "\n"
              /\ matchTemplate(s, q + 1, SrtTime)
              /\ LET a == runEnd(s, q + 1 + Len(SrtTime), Whitespace)
                 IN  /\ startsWithAt(s, "-->", a)
                     /\ matchTemplate(s, runEnd(s, a + 3, Whitespace), SrtTime)

srtSignature(trimmed) == \E p \in 1..Len(trimmed) : srtCueAt(trimmed, p)

NoMatch == [end |-> 0, min |-> "", sec |-> ""]

\* the word p at position i of s, in any letter case under the i flag
wordAt(s, p, i, ignoreCase) ==
    IF ignoreCase THEN startsWithAtIgnoreCase(s, p, i) ELSE startsWithAt(s, p, i)

\* (\d+)\s+minutes?\s+(\d+)\s+seconds? matched at position i of s, with or
\* without the i flag: the position after the match and the two groups, or
\* NoMatch
durationAt(s, i, ignoreCase) ==
    LET d1 == runEnd(s, i, Digit)
        w1 == runEnd(s, d1, Whitespace)
        m  == IF wordAt(s, "minutes", w1, ignoreCase) THEN w1 + 7 ELSE w1 + 6
        w2 == runEnd(s, m, Whitespace)
        d2 == runEnd(s, w2, Digit)
        w3 == runEnd(s, d2, Whitespace)
        e  == IF wordAt(s, "seconds", w3, ignoreCase) THEN w3 + 7 ELSE w3 + 6
    IN  IF /\ d1 > i
           /\ w1 > d1
           /\ wordAt(s, "minute", w1, ignoreCase)
           /\ w2 > m
           /\ d2 > w2
           /\ w3 > d2
           /\ wordAt(s, "second", w3, ignoreCase)
        THEN [end |-> e, min |-> SubSeq(s, i, d1 - 1), sec |-> SubSeq(s, w2, d2 - 1)]
        ELSE NoMatch

\* /\d+\s+minutes?\s+\d+\s+seconds?/i.test(s)
hasDuration(s) == \E i \in 1..Len(s) : durationAt(s, i, TRUE).end # 0

\* /^\d{1,2}:\d{2}\s*$/m.test(s)
hasShortStampLine(s) ==
    \E p \in 1..Len(s) :
        /\ lineStart(s, p)
        /\ \E n \in 1..2 :
              /\ matchTemplate(s, p, IF n = 1 THEN "d:dd" ELSE "dd:dd")
              /\ \E k \in (p + n + 3)..runEnd(s, p + n + 3, Whitespace) : lineEnd(s, k)

\* /\d{1,2}:\d{2}\s*\n[A-Z][a-z]+\s+[A-Z][a-z]+/m.test(s); c is the colon
hasStampThenName(s) ==
    \E c \in 2..Len(s) :
        /\ Char(s, c - 1) \in Digit
        /\ matchTemplate(s, c, ":dd")
        /\ \E q \in (c + 3)..(runEnd(s, c + 3, Whitespace) - 1) :
              /\ Char(s, q) = "\n"
              /\ Char(s, q + 1) \in Upper
              /\ LET r == runEnd(s, q + 2, Lower)
                     w == runEnd(s, r, Whitespace)
                 IN  /\ r > q + 2
                     /\ w > r
                     /\ Char(s, w) \in Upper
                     /\ Char(s, w + 1) \in Lower

Disclaimer == "ai-generated content may be incorrect"
Started == "started transcription"

\* teamsPatterns without the duration pattern
teamsPatterns_noDuration(trimmed) ==
    \/ includesIgnoreCase(trimmed, Disclaimer)
    \/ includesIgnoreCase(trimmed, Started)

\* teamsPatterns.some(pattern => pattern.test(trimmed)), server
teamsPatterns(trimmed) ==
    \/ includesIgnoreCase(trimmed, Disclaimer)
    \/ includesIgnoreCase(trimmed, Started)
    \/ hasDuration(trimmed)

\* teamsPatterns.some(pattern => pattern.test(trimmed)), client
teamsPatternsClient(trimmed) ==
    \/ includesIgnoreCase(trimmed, Disclaimer)
    \/ includesIgnoreCase(trimmed, Started)
    \/ hasDuration(trimmed)
    \/ hasShortStampLine(trimmed)
    \/ hasStampThenName(trimmed)

\* detectFormat with the Teams branch falling through to the fallback
detectFormat_teamsFallsThrough(c) ==
    LET trimmed == trim(c)
    IN  IF vttSignature(trimmed) THEN "vtt"
        ELSE IF srtSignature(trimmed) THEN "srt"
        ELSE "plain"

\* detectFormat with the SRT test moved in front of the VTT test
detectFormat_srtFirst(c) ==
    LET trimmed == trim(c)
    IN  IF srtSignature(trimmed) THEN "srt"
        ELSE IF vttSignature(trimmed) THEN "vtt"
        ELSE IF teamsPatterns(trimmed) THEN "teams-text"
        ELSE "plain"

detectFormat(c) ==
    LET trimmed == trim(c)
    IN  IF vttSignature(trimmed) THEN "vtt"
        ELSE IF srtSignature(trimmed) THEN "srt"
        ELSE IF teamsPatterns(trimmed) THEN "teams-text"
        ELSE "plain"

detectTranscriptFormat(c) ==
    LET trimmed == trim(c)
    IN  IF vttSignature(trimmed) THEN "vtt"
        ELSE IF srtSignature(trimmed) THEN "srt"
        ELSE IF teamsPatternsClient(trimmed) THEN "teams-text"
        ELSE "plain"

---------------------------------------------------------------------------
(* Entries: speaker and timestamp are string | null                        *)

Null == [some |-> FALSE, val |-> ""]
Some(v) == [some |-> TRUE, val |-> v]
\* JavaScript truthiness of a string | null
Truthy(o) == o.some /\ o.val # ""

Entry(speaker, timestamp, text) ==
    [speaker |-> speaker, timestamp |-> timestamp, text |-> text]

---------------------------------------------------------------------------
(* VTT parser: parseVttTranscript (client), parseVttContent (server)       *)

\* /^\d+$/.test(trimmed)
allDigits(s) == s # "" /\ \A i \in 1..Len(s) : Char(s, i) \in Digit

\* /^\d{2}:\d{2}/.test(trimmed) || trimmed.includes('-->')
isCueTiming(trimmed) == matchTemplate(trimmed, 1, "dd:dd") \/ includes(trimmed, "-->")

\* trimmed === 'WEBVTT' || trimmed.startsWith('NOTE') || ... 'Kind:' || ... 'Language:'
isVttMetadata(trimmed) ==
    \/ trimmed = "WEBVTT"
    \/ startsWith(trimmed, "NOTE")
    \/ startsWith(trimmed, "Kind:")
    \/ startsWith(trimmed, "Language:")

\* /<v\s+([^>]+)>(.*)/ matched at i: "<v", a blank, then at least one more
\* character up to the first ">"; . stops at a line terminator
speakerTagAt(s, i) ==
    LET close == indexFrom(s, ">", i + 2)
    IN  /\ startsWithAt(s, "<v", i)
        /\ i + 2 <= Len(s)
        /\ Char(s, i + 2) \in Whitespace
        /\ close >= i + 4

\* trimmed.match(/<v\s+([^>]+)>(.*)/): the leftmost match; groups 1 and 2
speakerTagMatch(s) ==
    LET at == {i \in 1..Len(s) : speakerTagAt(s, i)}
    IN  IF at = {} THEN [ok |-> FALSE, name |-> "", rest |-> ""]
        ELSE LET i == Min(at)
                 close == indexFrom(s, ">", i + 2)
                 ends == {k \in (close + 1)..Len(s) : Char(s, k) \in LineTerminator}
                 stop == IF ends = {} THEN Len(s) + 1 ELSE Min(ends)
             IN  [ok |-> TRUE,
                  name |-> SubSeq(s, i + 2, close - 1),
                  rest |-> SubSeq(s, close + 1, stop - 1)]

\* /<\/?v[^>]*>/ matched at i: the position of its closing ">" or 0
vTagClose(s, i) ==
    IF startsWithAt(s, "<v", i) THEN indexFrom(s, ">", i + 2)
    ELSE IF startsWithAt(s, "</v", i) THEN indexFrom(s, ">", i + 3)
    ELSE 0

\* trimmed.replace(/<\/?v[^>]*>/g, '')
RECURSIVE stripVTags(_)
stripVTags(s) ==
    LET at == {i \in 1..Len(s) : vTagClose(s, i) # 0}
    IN  IF at = {} THEN s
        ELSE SubSeq(s, 1, Min(at) - 1) \o stripVTags(From(s, vTagClose(s, Min(at)) + 1))

VttStart == [entries |-> <<>>, currentSpeaker |-> Null, buffer |-> <<>>]

\* entries.push({speaker: currentSpeaker, timestamp: null, text: buffer.join(' ').trim()}); buffer = []
vttFlush(st) ==
    IF Len(st.buffer) > 0
    THEN [st EXCEPT !.entries = Append(@, Entry(st.currentSpeaker, Null, trim(join(st.buffer, " ")))),
                    !.buffer = <<>>]
    ELSE st

\* speakerTagLine flushing the buffer after it has taken the new speaker
speakerTagLine_flushesUnderNew(st, name, text) ==
    [vttFlush([st EXCEPT !.currentSpeaker = Some(trim(name))])
        EXCEPT !.buffer = IF text # "" THEN <<text>> ELSE <<>>]

\* a line with a speaker tag: save the previous buffer, take the speaker, and
\* start the buffer with the text after the tag
speakerTagLine(st, name, text) ==
    [vttFlush(st) EXCEPT !.currentSpeaker = Some(trim(name)),
                         !.buffer = IF text # "" THEN <<text>> ELSE <<>>]

\* one turn of the client parser's loop
vttStep(st, line) ==
    LET trimmed == trim(line)
        tag == speakerTagMatch(trimmed)
        text == trim(removeAll(tag.rest, "</v>"))
        cleanText == trim(stripVTags(trimmed))
    IN  IF isVttMetadata(trimmed) THEN st
        ELSE IF trimmed = "" THEN vttFlush(st)
        ELSE IF allDigits(trimmed) THEN st
        ELSE IF isCueTiming(trimmed) THEN st
        ELSE IF tag.ok THEN speakerTagLine(st, tag.name, text)
        ELSE IF cleanText # "" THEN [st EXCEPT !.buffer = Append(@, cleanText)]
        ELSE st

\* the for loop over lines, from line i on
RECURSIVE vttLoop(_, _, _)
vttLoop(st, lines, i) ==
    IF i > Len(lines) THEN st ELSE vttLoop(vttStep(st, lines[i]), lines, i + 1)

\* the entries list of the client parser when its loop and the final flush are done
parseVttEntries(c) == vttFlush(vttLoop(VttStart, split(c, "\n"), 1)).entries

HasText(e) == e.text # ""

\* e.speaker ? `${e.speaker}: ${e.text}` : e.text
renderVttEntry(e) == IF Truthy(e.speaker) THEN e.speaker.val \o ": " \o e.text ELSE e.text

\* kept.map(e => ...)
renderVttEntries(kept) == [i \in 1..Len(kept) |-> renderVttEntry(kept[i])]

\* entries.filter(e => e.text).map(e => ...)
renderedVttEntries(entries) == renderVttEntries(SelectSeq(entries, HasText))

\* renderVtt joining the turns by a blank line, as the Teams renderer does
renderVtt_blankLine(entries) == join(renderedVttEntries(entries), "\n\n")

\* entries.filter(e => e.text).map(...).join('\n')
renderVtt(entries) == join(renderedVttEntries(entries), "\n")

parseVttTranscript(c) == renderVtt(parseVttEntries(c))

VttStartServer == [textLines |-> <<>>, currentSpeaker |-> Null, buffer |-> <<>>]

\* textLines.push(currentSpeaker ? `${currentSpeaker}: ${text}` : text); buffer = []
vttFlushServer(st) ==
    IF Len(st.buffer) > 0
    THEN LET text == trim(join(st.buffer, " "))
         IN  [st EXCEPT !.textLines =
                            Append(@, IF Truthy(st.currentSpeaker)
                                      THEN st.currentSpeaker.val \o ": " \o text
                                      ELSE text),
                        !.buffer = <<>>]
    ELSE st

\* one turn of the server parser's loop
vttStepServer(st, line) ==
    LET trimmed == trim(line)
        tag == speakerTagMatch(trimmed)
        text == trim(removeAll(tag.rest, "</v>"))
        cleanText == trim(stripVTags(trimmed))
    IN  IF isVttMetadata(trimmed) \/ trimmed = "" THEN vttFlushServer(st)
        ELSE IF allDigits(trimmed) THEN st
        ELSE IF isCueTiming(trimmed) THEN st
        ELSE IF tag.ok
             THEN [vttFlushServer(st) EXCEPT !.currentSpeaker = Some(trim(tag.name)),
                                             !.buffer = IF text # "" THEN <<text>> ELSE <<>>]
        ELSE IF cleanText # "" THEN [st EXCEPT !.buffer = Append(@, cleanText)]
        ELSE st

\* the for loop over lines, from line i on
RECURSIVE vttLoopServer(_, _, _)
vttLoopServer(st, lines, i) ==
    IF i > Len(lines) THEN st ELSE vttLoopServer(vttStepServer(st, lines[i]), lines, i + 1)

parseVttContent(c) ==
    join(vttFlushServer(vttLoopServer(VttStartServer, split(c, "\n"), 1)).textLines, "\n")

---------------------------------------------------------------------------
(* Teams-text parser: parseTeamsTextTranscript, parseTeamsTextContent      *)

Letter == Upper \cup Lower

\* [A-Z][a-zA-Z'-]+ at i, its first character drawn from First ([A-Z] is every
\* letter under the i flag): the position after it, or 0
nameTokenEnd(s, i, First) ==
    IF i + 1 <= Len(s) /\ Char(s, i) \in First /\ Char(s, i + 1) \in NameChar
    THEN runEnd(s, i + 1, NameChar)
    ELSE 0

\* [A-Z][a-zA-Z'-]+(?:\s+[A-Z][a-zA-Z'-]+)* at i, greedy: the position after
\* the last token, or 0
RECURSIVE nameEnd(_, _, _)
nameEnd(s, i, First) ==
    LET t == nameTokenEnd(s, i, First)
        w == runEnd(s, t, Whitespace)
    IN  IF t = 0 THEN 0
        ELSE IF w > t /\ nameTokenEnd(s, w, First) # 0 THEN nameEnd(s, w, First)
        ELSE t

\* /^(\d{1,2}):(\d{2})$/.exec(trimmed)
isShortTimestamp(s) ==
    \/ (Len(s) = 4 /\ matchTemplate(s, 1, "d:dd"))
    \/ (Len(s) = 5 /\ matchTemplate(s, 1, "dd:dd"))

\* /^(\d+)\s+minutes?\s+(\d+)\s+seconds?$/i.exec(trimmed)
longTimestamp(s) ==
    LET m == durationAt(s, 1, TRUE)
    IN  IF m.end = Len(s) + 1 THEN m ELSE NoMatch

\* sec.padStart(2, '0')
padStart2(sec) == IF Len(sec) < 2 THEN "0" \o sec ELSE sec

\* displayForm without the padding of the seconds
displayForm_noPad(m) == m.min \o ":" \o m.sec

\* `${m[1]}:${m[2].padStart(2, '0')}`
displayForm(m) == m.min \o ":" \o padStart2(m.sec)

\* longTs ? `${longTs[1]}:${longTs[2].padStart(2, '0')}` : ts, where longTs is
\* the leftmost match of the duration in ts
normalizeTs(ts) ==
    LET at == {i \in 1..Len(ts) : durationAt(ts, i, TRUE).end # 0}
    IN  IF at = {} THEN ts ELSE displayForm(durationAt(ts, Min(at), TRUE))

NoSpeaker == [ok |-> FALSE, name |-> "", ts |-> Null]

\* speakerPattern.exec(trimmed): Title-Case tokens, then optionally blanks and
\* a short stamp or a lower-case duration, up to the end
speakerMatch(s) ==
    LET e == nameEnd(s, 1, Upper)
        w == runEnd(s, e, Whitespace)
        d == durationAt(s, w, FALSE)
    IN  IF e = 0 THEN NoSpeaker
        ELSE IF e = Len(s) + 1 THEN [ok |-> TRUE, name |-> SubSeq(s, 1, e - 1), ts |-> Null]
        ELSE IF w > e /\ (isShortTimestamp(From(s, w)) \/ d.end = Len(s) + 1)
             THEN [ok |-> TRUE, name |-> SubSeq(s, 1, e - 1), ts |-> Some(From(s, w))]
        ELSE NoSpeaker

\* the /i pattern "Speaker Name X minutes Y seconds": tokens of letters in any
\* case, then blanks and a duration or a short stamp, up to the end
speakerWithTimestamp(s) ==
    LET e == nameEnd(s, 1, Letter)
        w == runEnd(s, e, Whitespace)
        d == durationAt(s, w, TRUE)
    IN  IF e # 0 /\ w > e /\ (d.end = Len(s) + 1 \/ isShortTimestamp(From(s, w)))
        THEN [ok |-> TRUE, name |-> SubSeq(s, 1, e - 1), ts |-> Some(From(s, w))]
        ELSE NoSpeaker

\* duplicateSpeakerCheck.test(trimmed): Title-Case tokens, blanks, a digit
duplicateSpeakerCheck(s) ==
    LET e == nameEnd(s, 1, Upper)
        w == runEnd(s, e, Whitespace)
    IN  e # 0 /\ w > e /\ w <= Len(s) /\ Char(s, w) \in Digit

\* keepLine comparing without lowering the case of the line
keepLine_caseSensitive(line) ==
    /\ ~includes(trim(line), Disclaimer)
    /\ ~includes(trim(line), Started)

\* the filter that drops the disclaimer and the "started transcription" lines
keepLine(line) ==
    /\ ~includesIgnoreCase(trim(line), Disclaimer)
    /\ ~includesIgnoreCase(trim(line), Started)

TeamsStart ==
    [entries |-> <<>>, currentSpeaker |-> Null, currentTimestamp |-> Null, textBuffer |-> <<>>]

teamsEntry(st) == Entry(st.currentSpeaker, st.currentTimestamp, trim(join(st.textBuffer, " ")))

\* "Save previous entry": the buffer becomes an entry when there is a speaker
savePrevious(st) ==
    IF Len(st.textBuffer) > 0 /\ Truthy(st.currentSpeaker)
    THEN [st EXCEPT !.entries = Append(@, teamsEntry(st)), !.textBuffer = <<>>]
    ELSE st

\* timestampLine saving the previous entry before it takes the stamp
timestampLine_flushes(st, ts) == [savePrevious(st) EXCEPT !.currentTimestamp = Some(ts)]

\* a line that is just a timestamp: save it and continue
timestampLine(st, ts) == [st EXCEPT !.currentTimestamp = Some(ts)]

\* a speaker line: save the previous entry, take the name, and take the
\* line's timestamp when it has one
speakerLine(st, name, ts) ==
    [savePrevious(st) EXCEPT !.currentSpeaker = Some(trim(name)),
                             !.currentTimestamp =
                                 IF Truthy(ts) THEN Some(normalizeTs(ts.val)) ELSE @]

\* isDuplicateSpeakerLine without the comparison with the current speaker
isDuplicateSpeakerLine_anySpeaker(st, trimmed) == duplicateSpeakerCheck(trimmed)

\* duplicateSpeakerCheck.test(trimmed) && currentSpeaker && trimmed.startsWith(currentSpeaker)
isDuplicateSpeakerLine(st, trimmed) ==
    /\ duplicateSpeakerCheck(trimmed)
    /\ Truthy(st.currentSpeaker)
    /\ startsWith(trimmed, st.currentSpeaker.val)

\* one turn of the loop over cleanedLines
teamsStep(st, line) ==
    LET trimmed == trim(line)
        long == longTimestamp(trimmed)
        sm == speakerMatch(trimmed)
        swt == speakerWithTimestamp(trimmed)
    IN  IF trimmed = "" THEN st
        ELSE IF isShortTimestamp(trimmed) THEN timestampLine(st, trimmed)
        ELSE IF long.end # 0 THEN timestampLine(st, displayForm(long))
        ELSE IF swt.ok THEN speakerLine(st, swt.name, swt.ts)
        ELSE IF sm.ok THEN speakerLine(st, sm.name, sm.ts)
        ELSE IF isDuplicateSpeakerLine(st, trimmed) THEN st
        ELSE [st EXCEPT !.textBuffer = Append(@, trimmed)]

\* the for loop over cleanedLines, from line i on
RECURSIVE teamsLoop(_, _, _)
teamsLoop(st, lines, i) ==
    IF i > Len(lines) THEN st ELSE teamsLoop(teamsStep(st, lines[i]), lines, i + 1)

\* the final save: what is left in the buffer becomes the last entry
teamsFinal(st) ==
    IF Len(st.textBuffer) > 0 THEN Append(st.entries, teamsEntry(st)) ELSE st.entries

\* the entries list when the loop and the final save are done
parseTeamsEntries(c) == teamsFinal(teamsLoop(TeamsStart, SelectSeq(split(c, "\n"), keepLine), 1))

\* renderTeamsEntry with the speaker before the timestamp
renderTeamsEntry_speakerFirst(e) ==
    (IF Truthy(e.speaker) THEN e.speaker.val \o ": " ELSE "")
        \o (IF Truthy(e.timestamp) THEN "[" \o e.timestamp.val \o "] " ELSE "")
        \o e.text

\* parts.join(' ') of [`[${e.timestamp}]`, `${e.speaker}:`, e.text]
renderTeamsEntry(e) ==
    (IF Truthy(e.timestamp) THEN "[" \o e.timestamp.val \o "] " ELSE "")
        \o (IF Truthy(e.speaker) THEN e.speaker.val \o ": " ELSE "")
        \o e.text

\* entries.filter(e => e.text).map(...).join('\n\n')
\* kept.map(e => ...)
renderTeamsEntries(kept) == [i \in 1..Len(kept) |-> renderTeamsEntry(kept[i])]

renderTeams(entries) == join(renderTeamsEntries(SelectSeq(entries, HasText)), "\n\n")

parseTeamsTextTranscript(c) == renderTeams(parseTeamsEntries(c))

parseTeamsTextContent(c) == renderTeams(parseTeamsEntries(c))

---------------------------------------------------------------------------
(* SRT parser: parseSrtTranscript (client), parseSrtContent (server)       *)

\* content.split(/\n\n+/)
RECURSIVE splitBlocks(_)
splitBlocks(s) ==
    LET n == indexFrom(s, "\n\n", 1)
    IN  IF n = 0 THEN <<s>>
        ELSE <<SubSeq(s, 1, n - 1)>> \o splitBlocks(From(s, runEnd(s, n, {"\n"})))

\* lines.slice(2)
slice2(lines) == SubSeq(lines, 3, Len(lines))

\* the entries pushed by the client: one text per block of three lines or more
srtBlockText(block) ==
    LET lines == split(trim(block), "\n")
    IN  IF Len(lines) >= 3 THEN trim(join(slice2(lines), " ")) ELSE ""

NonEmpty(s) == s # ""

srtBlockTexts(blocks) == [i \in 1..Len(blocks) |-> srtBlockText(blocks[i])]

parseSrtEntries(c) == SelectSeq(srtBlockTexts(splitBlocks(c)), NonEmpty)

parseSrtTranscript(c) == join(parseSrtEntries(c), "\n")

\* textLines.push(...lines.slice(2)) over the blocks
RECURSIVE srtTextLines(_)
srtTextLines(blocks) ==
    IF blocks = <<>> THEN <<>>
    ELSE LET lines == split(trim(Head(blocks)), "\n")
         IN  (IF Len(lines) >= 3 THEN slice2(lines) ELSE <<>>) \o srtTextLines(Tail(blocks))

parseSrtContent(c) == join(srtTextLines(splitBlocks(c)), "\n")

---------------------------------------------------------------------------
(* Participant extraction: extractParticipants                             *)

StampChar == Digit \cup {":"}

\* (?:\[[\d:]+\]\s*)? at p: the position after the bracket and its blanks, or p
bracketEnd(s, p) ==
    LET b == runEnd(s, p + 1, StampChar)
    IN  IF startsWithAt(s, "[", p) /\ b > p + 1 /\ startsWithAt(s, "]", b)
        THEN runEnd(s, b + 1, Whitespace)
        ELSE p

\* speakerPattern matched at p (^ under the m flag): the position of the colon
\* that ends the match, or 0
participantAt(s, p) ==
    LET a == bracketEnd(s, p)
        e == nameEnd(s, a, Upper)
    IN  IF lineStart(s, p) /\ e # 0 /\ startsWithAt(s, ":", e) THEN e ELSE 0

\* the names of the successive matches of the global pattern from position
\* from on: the while loop over speakerPattern.exec(text)
RECURSIVE participantMatches(_, _)
participantMatches(s, from) ==
    LET at == {p \in from..Len(s) : participantAt(s, p) # 0}
    IN  IF at = {} THEN <<>>
        ELSE LET p == Min(at)
                 e == participantAt(s, p)
             IN  <<trim(SubSeq(s, bracketEnd(s, p), e - 1))>> \o participantMatches(s, e + 1)

Denylist == {"Note", "Warning", "Error", "Info", "TODO", "WEBVTT"}

\* a < b by UTF-16 code units, the order of Array.prototype.sort()
codeUnitLess(a, b) ==
    LET n == Min({Len(a), Len(b)})
        diff == {i \in 1..n : Char(a, i) # Char(b, i)}
    IN  IF diff = {} THEN Len(a) < Len(b)
        ELSE CodeUnit(Char(a, Min(diff))) < CodeUnit(Char(b, Min(diff)))

\* Array.from(speakers).sort()
RECURSIVE sortSet(_)
sortSet(S) ==
    IF S = {} THEN <<>>
    ELSE LET least == CHOOSE x \in S : \A y \in S \ {x} : codeUnitLess(x, y)
         IN  <<least>> \o sortSet(S \ {least})

extractParticipants(text) ==
    LET names == participantMatches(text, 1)
    IN  sortSet({names[i] : i \in 1..Len(names)} \ Denylist)

---------------------------------------------------------------------------
(* parseTranscript: client (structured result) and server (text)           *)

\* /^\[(\d{1,2}:\d{2})\]/ on a block: the stamp in the leading bracket, or null
blockTimestamp(block) ==
    IF matchTemplate(block, 1, "[d:dd]") THEN Some(SubSeq(block, 2, 5))
    ELSE IF matchTemplate(block, 1, "[dd:dd]") THEN Some(SubSeq(block, 2, 6))
    ELSE Null

\* block.match(/^(?:\[[\d:]+\]\s*)?([^:]+):\s*(.*)$/s): the position where
\* group 1 may start and the colon that ends it, or 0 when the block does not
\* match. The bracket is taken when a non-empty group and a colon follow it;
\* otherwise the group starts at the beginning of the block.
blockSpeakerMatch(block) ==
    LET b == runEnd(block, 2, StampChar)
        a == b + 1
        withBracket == /\ startsWithAt(block, "[", 1)
                       /\ b > 2
                       /\ startsWithAt(block, "]", b)
                       /\ indexFrom(block, ":", a) > a
        colon == IF withBracket THEN indexFrom(block, ":", a) ELSE indexFrom(block, ":", 1)
    IN  IF withBracket THEN [ok |-> TRUE, from |-> a, colon |-> colon]
        ELSE IF colon > 1 THEN [ok |-> TRUE, from |-> 1, colon |-> colon]
        ELSE [ok |-> FALSE, from |-> 0, colon |-> 0]

\* the entry parseTranscript makes of one block of rawText
blockEntry(block) ==
    LET m == blockSpeakerMatch(block)
    IN  IF m.ok
        THEN Entry(Some(trim(SubSeq(block, m.from, m.colon - 1))),
                   blockTimestamp(block),
                   trim(From(block, m.colon + 1)))
        ELSE Entry(Null, Null, trim(block))

\* rawText.split('\n\n').filter(Boolean).map(block => ...)
blocksToEntries(blocks) == [i \in 1..Len(blocks) |-> blockEntry(blocks[i])]

blockEntries(rawText) == blocksToEntries(SelectSeq(split(rawText, "\n\n"), NonEmpty))

\* the switch of parseTranscript
parseByFormat(format, c) ==
    IF format = "vtt" THEN parseVttTranscript(c)
    ELSE IF format = "teams-text" THEN parseTeamsTextTranscript(c)
    ELSE IF format = "srt" THEN parseSrtTranscript(c)
    ELSE trim(c)

\* the object parseTranscript returns for a format and the text parsed for it
parsedTranscript(format, rawText) ==
    [entries |-> blockEntries(rawText),
     participants |-> extractParticipants(rawText),
     rawText |-> rawText,
     format |-> format]

\* parseTranscript once the format is detected
parseAs(format, c) == parsedTranscript(format, parseByFormat(format, c))

parseTranscript(c) == parseAs(detectTranscriptFormat(c), c)

\* the switch of parseTranscript in api/upload.ts
upload_parseByFormat(format, c) ==
    IF format = "vtt" THEN parseVttContent(c)
    ELSE IF format = "teams-text" THEN parseTeamsTextContent(c)
    ELSE IF format = "srt" THEN parseSrtContent(c)
    ELSE trim(c)

\* parseTranscript of api/upload.ts
upload_parseTranscript(c) == upload_parseByFormat(detectFormat(c), c)

---------------------------------------------------------------------------
(* Input validation: validateTranscript (lib/teams.ts), the guards of the  *)
(* upload handler (api/upload.ts) and of uploadTranscript (lib/api client) *)
(*                                                                         *)
(* The guards look at a value's type, at the length of the trimmed string  *)
(* and at the number of its characters outside [\x20-\x7E\n\r\t]. A string *)
(* is kept here as its runs of characters of one class, [cls, n], so that  *)
(* strings of 10 MiB have a value:                                         *)
(*   "blank"   space, \n, \r, \t: trimmed at the ends, allowed inside      *)
(*   "vtab"    \v, \f, U+00A0: trimmed at the ends, not printable inside   *)
(*   "text"    printable ASCII but the space                               *)
(*   "binary"  every other character                                      *)

CharClasses == {"blank", "vtab", "text", "binary"}

\* the classes String.prototype.trim removes at both ends
TrimmedClasses == {"blank", "vtab"}

\* the classes /[^\x20-\x7E\n\r\t]/g matches
NonPrintableClasses == {"vtab", "binary"}

Undefined == [type |-> "undefined", runs |-> <<>>]
NullValue == [type |-> "null", runs |-> <<>>]
\* a number other than 0 and NaN
NumberValue == [type |-> "number", runs |-> <<>>]
StringValue(runs) == [type |-> "string", runs |-> runs]

\* s.length
RECURSIVE runsLength(_)
runsLength(runs) == IF runs = <<>> THEN 0 ELSE Head(runs).n + runsLength(Tail(runs))

\* (s.match(/[^\x20-\x7E\n\r\t]/g) || []).length
RECURSIVE nonPrintableCount(_)
nonPrintableCount(runs) ==
    IF runs = <<>> THEN 0
    ELSE (IF Head(runs).cls \in NonPrintableClasses THEN Head(runs).n ELSE 0)
            + nonPrintableCount(Tail(runs))

RECURSIVE trimRunsStart(_)
trimRunsStart(runs) ==
    IF runs # <<>> /\ Head(runs).cls \in TrimmedClasses THEN trimRunsStart(Tail(runs)) ELSE runs

RECURSIVE trimRunsEnd(_)
trimRunsEnd(runs) ==
    IF runs # <<>> /\ runs[Len(runs)].cls \in TrimmedClasses
    THEN trimRunsEnd(SubSeq(runs, 1, Len(runs) - 1))
    ELSE runs

\* s.trim()
trimRuns(runs) == trimRunsEnd(trimRunsStart(runs))

\* !v
Falsy(v) == v.type \in {"undefined", "null"} \/ (v.type = "string" /\ runsLength(v.runs) = 0)

MIN_TRANSCRIPT_LENGTH == 50

MAX_FILE_SIZE == 10 * 1024 * 1024

\* nonPrintableRatio > 0.1, a comparison of doubles: for 1 <= n <= 10 MiB the
\* quotient k / n exceeds the double 0.1 exactly when 10 * k > n (10 * k = n
\* gives the double 0.1 itself, 10 * k > n lies at least 1 / (10 * n) above it)
ratioExceedsTenth(k, n) == 10 * k > n

Invalid(error) == [valid |-> FALSE, error |-> Some(error)]

\* validateTranscript with the length test taking the minimum itself as too short
validateTrimmed_minExclusive(trimmed) ==
    IF runsLength(trimmed) <= 50
    THEN Invalid("Transcript is too short (minimum 50 characters)")
    ELSE IF runsLength(trimmed) > 10 * 1024 * 1024
    THEN Invalid("Transcript exceeds 10MB limit")
    ELSE IF ratioExceedsTenth(nonPrintableCount(trimmed), runsLength(trimmed))
    THEN Invalid("File appears to be binary. Please upload a text file or paste the transcript text.")
    ELSE [valid |-> TRUE, error |-> Null]

\* validateTranscript with the binary test rejecting a ratio of exactly 10%
validateTrimmed_tenthRejected(trimmed) ==
    IF runsLength(trimmed) < 50
    THEN Invalid("Transcript is too short (minimum 50 characters)")
    ELSE IF runsLength(trimmed) > 10 * 1024 * 1024
    THEN Invalid("Transcript exceeds 10MB limit")
    ELSE IF 10 * nonPrintableCount(trimmed) >= runsLength(trimmed)
    THEN Invalid("File appears to be binary. Please upload a text file or paste the transcript text.")
    ELSE [valid |-> TRUE, error |-> Null]

\* validateTranscript from const trimmed = content.trim() on
validateTrimmed(trimmed) ==
    IF runsLength(trimmed) < 50
    THEN Invalid("Transcript is too short (minimum 50 characters)")
    ELSE IF runsLength(trimmed) > 10 * 1024 * 1024
    THEN Invalid("Transcript exceeds 10MB limit")
    ELSE IF ratioExceedsTenth(nonPrintableCount(trimmed), runsLength(trimmed))
    THEN Invalid("File appears to be binary. Please upload a text file or paste the transcript text.")
    ELSE [valid |-> TRUE, error |-> Null]

validateTranscript(v) ==
    IF Falsy(v) \/ v.type # "string"
    THEN Invalid("No transcript content provided")
    ELSE validateTrimmed(trimRuns(v.runs))

Response(status, error) == [status |-> status, error |-> error]

\* the handler has found nothing wrong with the request and goes on to detect,
\* parse and store the transcript
Accepted == Response(0, "")

\* the length tests of the handler on trimmedTranscript
handlerLengthGuards(trimmedTranscript) ==
    IF runsLength(trimmedTranscript) < MIN_TRANSCRIPT_LENGTH
    THEN Response(400, "Transcript must be at least 50 characters. Current: "
                            \o ToString(runsLength(trimmedTranscript)))
    ELSE IF runsLength(trimmedTranscript) > MAX_FILE_SIZE
    THEN Response(413, "Transcript exceeds 10MB limit")
    ELSE Accepted

\* the tests the handler makes on req.body.transcript before it parses it
handlerGuards(transcript) ==
    IF Falsy(transcript) \/ transcript.type # "string"
    THEN Response(400, "Transcript content is required. Please paste or upload a transcript.")
    ELSE handlerLengthGuards(trimRuns(transcript.runs))

\* the guard of uploadTranscript: what it throws, or "none" when it goes on to
\* post the transcript; calling trim on a value that is no string is a TypeError
uploadTranscriptGuard(transcriptContent) ==
    IF Falsy(transcriptContent)
    THEN "ApiError: Transcript must be at least 50 characters"
    ELSE IF transcriptContent.type # "string"
    THEN "TypeError"
    ELSE IF runsLength(trimRuns(transcriptContent.runs)) < 50
    THEN "ApiError: Transcript must be at least 50 characters"
    ELSE "none"

---------------------------------------------------------------------------
(* Upload handlers: api/upload.ts and the earlier handler of part_000      *)

\* a string of printable ASCII, blanks and newlines as runs of classes: the
\* blanks at its two ends, and between them the trimmed string, in which every
\* character is one the binary test lets pass
RunIf(cls, n) == IF n > 0 THEN <<[cls |-> cls, n |-> n]>> ELSE <<>>

runsOfText(s) ==
    RunIf("blank", Len(s) - Len(trimStart(s)))
        \o RunIf("text", Len(trim(s)))
        \o RunIf("blank", Len(trimStart(s)) - Len(trim(s)))

\* what an insert into meetings does: the row is stored, or the database
\* reports an error and nothing is stored
InsertOutcomes == {"stored", "error"}

Handled(response, row) == [response |-> response, row |-> row]

\* the handler of api/upload.ts on req.body.transcript, a string; g is what
\* its guards answer
handlerAfterGuards(g, transcript, outcome) ==
    IF g # Accepted THEN Handled(g, Null)
    ELSE IF outcome = "error" THEN Handled(Response(500, "Database error"), Null)
    ELSE Handled(Response(201, ""), Some(upload_parseTranscript(trim(transcript))))

handler(transcript, outcome) ==
    handlerAfterGuards(handlerGuards(StringValue(runsOfText(transcript))), transcript, outcome)

\* trimmed.replace(/<\/v>/, ''): the first occurrence only
removeFirst(s, p) ==
    IF indexFrom(s, p, 1) = 0 THEN s
    ELSE SubSeq(s, 1, indexFrom(s, p, 1) - 1) \o From(s, indexFrom(s, p, 1) + Len(p))

\* trimmed.match(/<v ([^>]+)>(.*)/) at its leftmost position i
part000_tagAt(s, i) == startsWithAt(s, "<v ", i) /\ indexFrom(s, ">", i + 3) >= i + 4

part000_tagLine(s, i) ==
    SubSeq(s, i + 3, indexFrom(s, ">", i + 3) - 1) \o ": "
        \o trim(removeFirst(From(s, indexFrom(s, ">", i + 3) + 1), "</v>"))

\* what one line adds to textLines in parseVttContent of part_000
part000_vttLine(trimmed) ==
    IF trimmed = "WEBVTT" \/ startsWith(trimmed, "NOTE") \/ trimmed = "" THEN <<>>
    ELSE IF allDigits(trimmed) THEN <<>>
    ELSE IF isCueTiming(trimmed) THEN <<>>
    ELSE IF startsWith(trimmed, "<v ")
         THEN IF \E i \in 1..Len(trimmed) : part000_tagAt(trimmed, i)
              THEN <<part000_tagLine(trimmed, Min({i \in 1..Len(trimmed) : part000_tagAt(trimmed, i)}))>>
              ELSE <<>>
    ELSE <<trimmed>>

RECURSIVE part000_textLines(_, _)
part000_textLines(lines, k) ==
    IF k > Len(lines) THEN <<>>
    ELSE part000_vttLine(trim(lines[k])) \o part000_textLines(lines, k + 1)

part000_parseVttContent(c) == join(part000_textLines(split(c, "\n"), 1), "\n")

part000_MIN_TRANSCRIPT_LENGTH == 100

\* the handler of part_000 from processedTranscript on
part000_handlerProcessed(processedTranscript, outcome) ==
    IF Len(processedTranscript) < part000_MIN_TRANSCRIPT_LENGTH
    THEN Handled(Response(400, "Transcript must be at least 100 characters"), Null)
    ELSE IF Len(processedTranscript) > MAX_FILE_SIZE
    THEN Handled(Response(413, "Transcript exceeds 10MB limit"), Null)
    ELSE IF outcome = "error" THEN Handled(Response(500, "Database error"), Null)
    ELSE Handled(Response(201, ""), Some(processedTranscript))

part000_handler(transcript, outcome) ==
    IF transcript = "" THEN Handled(Response(400, "transcript is required"), Null)
    ELSE part000_handlerProcessed(IF startsWith(transcript, "WEBVTT")
                                  THEN part000_parseVttContent(transcript)
                                  ELSE transcript,
                                  outcome)

---------------------------------------------------------------------------
(* Upload modal: components/UploadModal.tsx                                *)

MAX_BYTES == 10 * 1024 * 1024

\* no file is being read by onDrop
NoFile == [name |-> "", size |-> 0, text |-> ""]

\* no response has arrived
NoResponse == [status |-> 0, error |-> ""]

\* handleAnalyze is not running; outcome tells how its last run ended
AtRest(outcome) ==
    [at |-> "rest", parsedContent |-> "", rawContent |-> "", title |-> "",
     sent |-> FALSE, response |-> NoResponse, meetingId |-> 0,
     analysis |-> FALSE, outcome |-> outcome]

NothingPending == [onDrop |-> [file |-> NoFile, title |-> ""], handleAnalyze |-> AtRest("")]

Max(S) == CHOOSE x \in S : \A y \in S : x >= y

lowerChar(c) ==
    IF c \in Upper
    THEN SubSeq(LowerAlpha, CHOOSE i \in 1..26 : SubSeq(UpperAlpha, i, i) = c,
                CHOOSE i \in 1..26 : SubSeq(UpperAlpha, i, i) = c)
    ELSE c

RECURSIVE toLowerCase(_)
toLowerCase(s) ==
    IF s = "" THEN "" ELSE lowerChar(SubSeq(s, 1, 1)) \o toLowerCase(Tail(s))

lastDot(s) == Max({0} \cup {i \in 1..Len(s) : Char(s, i) = "."})

\* source.replace(/\.[^/.]+$/, ''): the last dot and what follows it, when
\* something follows it and no slash does
withoutExtension(s) ==
    IF lastDot(s) > 0 /\ lastDot(s) < Len(s) /\ ~includes(From(s, lastDot(s) + 1), "/")
    THEN SubSeq(s, 1, lastDot(s) - 1)
    ELSE s

\* .replace(/[-_]/g, ' ')
RECURSIVE spaced(_)
spaced(s) ==
    IF s = "" THEN ""
    ELSE (IF Head(s) \in {"-", "_"} THEN " " ELSE SubSeq(s, 1, 1)) \o spaced(Tail(s))

cleanName(source) == spaced(withoutExtension(source))

\* processContent once validation has passed; title is the title the
\* callback closed over
processValid(m, c, source, title) ==
    [m EXCEPT !.error = Null,
              !.rawContent = c,
              !.parsedContent = parseTranscript(c).rawText,
              !.detectedFormat = detectTranscriptFormat(c),
              !.participants = parseTranscript(c).participants,
              !.title = IF title = "" /\ source # "paste" THEN cleanName(source) ELSE @]

processRejected(m, validation) ==
    [m EXCEPT !.error = Some(IF Truthy(validation.error) THEN validation.error.val
                             ELSE "Invalid transcript")]

processContent(m, c, source, title) ==
    IF validateTranscript(StringValue(runsOfText(c))).valid
    THEN processValid(m, c, source, title)
    ELSE processRejected(m, validateTranscript(StringValue(runsOfText(c))))

\* a variant that clears what an earlier input left when it rejects
processContent_clearsOnReject(m, c, source, title) ==
    IF validateTranscript(StringValue(runsOfText(c))).valid
    THEN processValid(m, c, source, title)
    ELSE [processRejected(m, validateTranscript(StringValue(runsOfText(c))))
             EXCEPT !.rawContent = "", !.parsedContent = "",
                    !.detectedFormat = "", !.participants = <<>>]

handlePaste(m, value) ==
    IF Len(trim(value)) > 50
    THEN processContent([m EXCEPT !.rawContent = value], value, "paste", m.title)
    ELSE [m EXCEPT !.rawContent = value, !.parsedContent = "",
                   !.detectedFormat = "", !.participants = <<>>]

resetForm(m) ==
    [m EXCEPT !.rawContent = "", !.parsedContent = "", !.fileName = "", !.title = "",
              !.detectedFormat = "", !.participants = <<>>, !.error = Null,
              !.progress = "idle"]

\* parsedContent || rawContent
orRaw(parsedContent, rawContent) == IF parsedContent # "" THEN parsedContent ELSE rawContent

hasContent(m) == trim(orRaw(m.parsedContent, m.rawContent)) # ""

\* the submit button is enabled
canSubmit(m) == ~m.submitting /\ hasContent(m) /\ ~m.isProcessingFile

\* the synchronous start of handleAnalyze, up to the await of uploadTranscript
analyzing(m) ==
    [at |-> "uploadTranscript", parsedContent |-> m.parsedContent,
     rawContent |-> m.rawContent, title |-> m.title,
     sent |-> uploadTranscriptGuard(StringValue(runsOfText(orRaw(m.parsedContent, m.rawContent)))) = "none",
     response |-> NoResponse, meetingId |-> 0, analysis |-> FALSE, outcome |-> ""]

contentToUpload(run) == orRaw(run.parsedContent, run.rawContent)

\* catch and finally of handleAnalyze
failed_keepsProgress(m, message) == [m EXCEPT !.error = Some(message), !.submitting = FALSE]

failed(m, message) ==
    [m EXCEPT !.error = Some(message), !.progress = "idle", !.submitting = FALSE]

\* the end of the try block and finally
succeeded(m) == [resetForm(m) EXCEPT !.submitting = FALSE]

---------------------------------------------------------------------------
(* Client store: useAppStore                                               *)

MAX_TRANSCRIPT_CHARS == 100000

\* (meeting.actionItems || []).map((item, idx) => ({...item, id: nanoid(), meetingId, order: idx}))
\* for a meeting that brings n action items, the ids following meetingId
newActionItems(meetingId, n) ==
    [idx \in 1..n |-> [id |-> meetingId + idx, meetingId |-> meetingId, order |-> idx - 1]]

idsOf(items) == [k \in 1..Len(items) |-> items[k].id]

\* the set(...) of addMeeting for a meeting with n action items
addMeeting(state, n) ==
    [meetings |-> << [id |-> state.issued + 1,
                      actionItemIds |-> idsOf(newActionItems(state.issued + 1, n))] >>
                      \o state.meetings,
     actionItems |-> newActionItems(state.issued + 1, n) \o state.actionItems,
     issued |-> state.issued + 1 + n]

\* m => m.id === id ? {...m, actionItemIds: [...m.actionItemIds, itemId]} : m
withActionItem(m, id, itemId) ==
    IF m.id = id THEN [m EXCEPT !.actionItemIds = Append(@, itemId)] ELSE m

\* the set(...) of addActionItem for an item of meeting meetingId
addActionItem(state, meetingId) ==
    [meetings |-> [k \in 1..Len(state.meetings) |->
                      withActionItem(state.meetings[k], meetingId, state.issued + 1)],
     actionItems |-> Append(state.actionItems,
                            [id |-> state.issued + 1, meetingId |-> meetingId, order |-> 0]),
     issued |-> state.issued + 1]

\* xs.filter(x => x !== id)
RECURSIVE without(_, _)
without(xs, id) ==
    IF xs = <<>> THEN <<>>
    ELSE IF Head(xs) = id THEN without(Tail(xs), id)
    ELSE <<Head(xs)>> \o without(Tail(xs), id)

\* xs.filter(x => x.id !== id)
RECURSIVE withoutId(_, _)
withoutId(xs, id) ==
    IF xs = <<>> THEN <<>>
    ELSE IF Head(xs).id = id THEN withoutId(Tail(xs), id)
    ELSE <<Head(xs)>> \o withoutId(Tail(xs), id)

\* state.actionItems.filter(a => a.meetingId !== id)
RECURSIVE withoutMeeting(_, _)
withoutMeeting(items, id) ==
    IF items = <<>> THEN <<>>
    ELSE IF Head(items).meetingId = id THEN withoutMeeting(Tail(items), id)
    ELSE <<Head(items)>> \o withoutMeeting(Tail(items), id)

\* deleteMeeting leaving the action items of the meeting in the store
deleteMeeting_keepsItems(state, id) ==
    [state EXCEPT !.meetings = withoutId(state.meetings, id)]

\* the set(...) of deleteMeeting
deleteMeeting(state, id) ==
    [state EXCEPT !.meetings = withoutId(state.meetings, id),
                  !.actionItems = withoutMeeting(state.actionItems, id)]

\* the set(...) of deleteActionItem
deleteActionItem(state, id) ==
    [state EXCEPT !.actionItems = withoutId(state.actionItems, id),
                  !.meetings = [k \in 1..Len(state.meetings) |->
                                   [state.meetings[k] EXCEPT !.actionItemIds = without(@, id)]]]

---------------------------------------------------------------------------
(* Inputs: up to n lines of a library, joined by newlines                  *)

Inputs(Lib, n) == UNION {[1..k -> Lib] : k \in 1..n}

\* the useState cells of UploadModal as they are initialised (and as resetForm
\* leaves them)
InitialModal ==
    [rawContent |-> "",
     parsedContent |-> "",
     fileName |-> "",
     title |-> "",
     detectedFormat |-> "",
     participants |-> <<>>,
     error |-> Null,
     submitting |-> FALSE,
     progress |-> "idle",
     isProcessingFile |-> FALSE]

\* issued counts the calls of nanoid() so far: the n-th call returns the id n
EmptyStore == [meetings |-> <<>>, actionItems |-> <<>>, issued |-> 0]

\* nothing has been uploaded, the modal is fresh and the store is empty
AppAtRest ==
    /\ meetingsTable = <<>>
    /\ modal = InitialModal
    /\ store = EmptyStore
    /\ pending = NothingPending

\* no parser loop is running
NoScan == [parser |-> "none", lines |-> <<>>, i |-> 0, st |-> <<>>]

Fresh(Lib, n) ==
    /\ parts \in Inputs(Lib, n)
    /\ content = join(parts, "\n")
    /\ op = "none"
    /\ out = ""
    /\ scan = NoScan
    /\ AppAtRest

MaxDetectLines == 3

DetectLines ==
    { "WEBVTT",
      "1",
      "00:00:01.000 --> 00:00:02.000",
      "00:00:01,000 --> 00:00:02,000",
      "01:00:01,000 --> 01:00:02,000",
      "Hello",
      "John Doe",
      "met at 5:43",
      "Let's go. AI-generated content may be incorrect.",
      "Bob started transcription",
      "2 minutes 15 seconds",
      "5:43" }

InitDetect == Fresh(DetectLines, MaxDetectLines)

MaxVttLines == 5

CueAlice == "<v Alice>Hello there</v>"
CueBob == "<v Bob>Hi Alice</v>"
CueCarol == "<v Carol White>10:30 works, right?</v>"

VttLines == {"WEBVTT", "", CueAlice, CueBob, CueCarol}

InitVtt == Fresh(VttLines, MaxVttLines)

MaxTeamsLines == 4

TeamsLines ==
    { "Alice",
      "Bob",
      "1:15",
      "5 minutes 3 seconds",
      "First remark.",
      "see you in 5 minutes 3 seconds ok",
      "Agenda:" }

InitTeams == Fresh(TeamsLines, MaxTeamsLines)

MaxParticipantLines == 3

ParticipantLines ==
    { "Note: see above",
      "Alice: hi",
      "[1:15] Bob: yo",
      "Hello",
      "alice: no",
      "Carol White: ok" }

InitParticipants == Fresh(ParticipantLines, MaxParticipantLines)

MaxSrtLines == 5

SrtLines == {"3", "00:00:05,000 --> 00:00:06,000", "Line one", "Line two", ""}

InitSrt == Fresh(SrtLines, MaxSrtLines)

MaxTeamsScanLines == 4

TeamsScanLines ==
    { "Alice",
      "1:15",
      "5 minutes 3 seconds",
      "First remark.",
      "we met at 5:30",
      "Bob 1 minute 5 seconds",
      "AI-generated content may be incorrect",
      "Bob started transcription 1:15" }

\* the transcript of two speakers under one timestamp
StickyLines == <<"Alice", "1:15", "First remark.", "Bob", "Second remark.">>

InitTeamsScan ==
    \/ Fresh(TeamsScanLines, MaxTeamsScanLines)
    \/ /\ parts = StickyLines
       /\ content = join(parts, "\n")
       /\ op = "none"
       /\ out = ""
       /\ scan = NoScan
       /\ AppAtRest

MaxTeamsRuleLines == 4

DuplicateLine == "Alice 5 things"

TeamsRuleLines ==
    {"Alice", "Bob", "1:15", "First remark.", DuplicateLine, "Bob 1 minute 5 seconds"}

InitTeamsRules == Fresh(TeamsRuleLines, MaxTeamsRuleLines)

MaxRenderEntries == 3

\* the entries a renderer is given: with and without speaker, timestamp, text
RenderEntries ==
    { Entry(s, ts, text) : s \in {Null, Some("Alice")},
                           ts \in {Null, Some("1:15")},
                           text \in {"", "Hello there"} }

InitRender ==
    /\ parts \in UNION {[1..k -> RenderEntries] : k \in 0..MaxRenderEntries}
    /\ content = ""
    /\ op = "none"
    /\ out = ""
    /\ scan = NoScan
    /\ AppAtRest

MaxHandlerLines == 4

CueTiming == "00:00:01.000 --> 00:00:05.000"

LongLine == "Thanks everyone for joining the weekly sync today."

HandlerLines == {"WEBVTT", "", CueTiming, CueAlice, LongLine, "ok"}

InitHandler == Fresh(HandlerLines, MaxHandlerLines)

\* how many inputs are dropped or pasted into the modal, and how many rows
\* the meetings table takes
MaxInputs == 2
MaxRows == 1

PlainText == LongLine \o "\nAction items were assigned."

\* a Teams export in which a turn's text holds a duration phrase
DurationText == "Alice\nsee you again in 5 minutes 3 seconds, right after the break\nBob\nyes"

ShortText == "too short"

TextFile(name, text) == [name |-> name, size |-> Len(text), text |-> text]

\* text of a .docx is what mammoth extracts from it; the text of a file
\* over MAX_BYTES and of a .pdf is never read
Files ==
    {TextFile("retro.txt", DurationText), TextFile("memo.txt", ShortText),
     TextFile("Minutes.DOCX", PlainText), TextFile("slides.pdf", ""),
     [name |-> "recording.txt", size |-> MAX_BYTES + 1, text |-> ""]}

Pastes == {PlainText, LongLine}

InitModal ==
    /\ parts = <<>>
    /\ content = ""
    /\ op = "none"
    /\ out = ""
    /\ scan = NoScan
    /\ AppAtRest

\* how many ids nanoid() hands out in one run of the store
MaxIds == 4

\* the action items a new meeting may bring
MaxNewItems == 2

InitStore ==
    /\ parts = <<>>
    /\ content = ""
    /\ op = "none"
    /\ out = ""
    /\ scan = NoScan
    /\ meetingsTable = <<>>
    /\ modal = InitialModal
    /\ store = EmptyStore
    /\ pending = NothingPending

MaxVttScanLines == 4

CueNote == "NOTE remark"
CueMore == "more text"

VttScanLines == {"WEBVTT", CueNote, "", CueAlice, CueBob, CueMore}

InitVttScan == Fresh(VttScanLines, MaxVttScanLines)

MaxRuns == 3

\* run lengths that reach both sides of the limits 50 and 10 MiB and of the
\* ratio 10%
RunLengths == {1, 5, 45, 49, MAX_FILE_SIZE}

Runs == [cls : CharClasses, n : RunLengths]

\* the values handed to the guards: no value, a number, or a string of up to
\* MaxRuns runs
InitValidate ==
    /\ parts \in UNION {[1..k -> Runs] : k \in 0..MaxRuns}
    /\ content \in {StringValue(parts)}
                    \cup (IF parts = <<>> THEN {Undefined, NullValue, NumberValue} ELSE {})
    /\ op = "none"
    /\ out = ""
    /\ scan = NoScan
    /\ AppAtRest

---------------------------------------------------------------------------
(* Operations                                                              *)

DetectFormat ==
    /\ op = "none"
    /\ op' = "detectFormat"
    /\ out' = detectFormat(content)
    /\ UNCHANGED <<parts, content, scan, meetingsTable, modal, store, pending>>

DetectTranscriptFormat ==
    /\ op = "none"
    /\ op' = "detectTranscriptFormat"
    /\ out' = detectTranscriptFormat(content)
    /\ UNCHANGED <<parts, content, scan, meetingsTable, modal, store, pending>>

\* the client VTT parser: its entries list and the text it returns
ParseVttTranscript ==
    /\ op = "none"
    /\ op' = "parseVttTranscript"
    /\ out' = [entries |-> parseVttEntries(content), rawText |-> parseVttTranscript(content)]
    /\ UNCHANGED <<parts, content, scan, meetingsTable, modal, store, pending>>

ParseVttContent ==
    /\ op = "none"
    /\ op' = "parseVttContent"
    /\ out' = parseVttContent(content)
    /\ UNCHANGED <<parts, content, scan, meetingsTable, modal, store, pending>>

\* the client Teams-text parser: its entries list and the text it returns
ParseTeamsTextTranscript ==
    /\ op = "none"
    /\ op' = "parseTeamsTextTranscript"
    /\ out' = [entries |-> parseTeamsEntries(content),
               rawText |-> parseTeamsTextTranscript(content)]
    /\ UNCHANGED <<parts, content, scan, meetingsTable, modal, store, pending>>

ParseTeamsTextContent ==
    /\ op = "none"
    /\ op' = "parseTeamsTextContent"
    /\ out' = parseTeamsTextContent(content)
    /\ UNCHANGED <<parts, content, scan, meetingsTable, modal, store, pending>>

ParseTranscript ==
    /\ op = "none"
    /\ op' = "parseTranscript"
    /\ out' = parseTranscript(content)
    /\ UNCHANGED <<parts, content, scan, meetingsTable, modal, store, pending>>

\* the pipeline run again on its own normalized text
Reparse ==
    /\ op = "parseTranscript"
    /\ op' = "reparse"
    /\ content' = out.rawText
    /\ out' = parseTranscript(out.rawText)
    /\ UNCHANGED <<parts, scan, meetingsTable, modal, store, pending>>

ExtractParticipants ==
    /\ op = "none"
    /\ op' = "extractParticipants"
    /\ out' = extractParticipants(content)
    /\ UNCHANGED <<parts, content, scan, meetingsTable, modal, store, pending>>

\* the client SRT parser: its entries list and the text it returns
ParseSrtTranscript ==
    /\ op = "none"
    /\ op' = "parseSrtTranscript"
    /\ out' = [entries |-> parseSrtEntries(content), rawText |-> parseSrtTranscript(content)]
    /\ UNCHANGED <<parts, content, scan, meetingsTable, modal, store, pending>>

ParseSrtContent ==
    /\ op = "none"
    /\ op' = "parseSrtContent"
    /\ out' = parseSrtContent(content)
    /\ UNCHANGED <<parts, content, scan, meetingsTable, modal, store, pending>>

NextSrt == ParseSrtTranscript \/ ParseSrtContent

SpecSrt == InitSrt /\ [][NextSrt]_vars

TeamsParsers == {"parseTeamsTextTranscript", "parseTeamsTextContent"}

\* the Teams-text parser is entered: the lines are split and filtered, the
\* loop variables are fresh
TeamsScanStart ==
    /\ op = "none"
    /\ scan.parser = "none"
    /\ \E p \in TeamsParsers :
           scan' = [parser |-> p,
                    lines |-> SelectSeq(split(content, "\n"), keepLine),
                    i |-> 1,
                    st |-> TeamsStart]
    /\ UNCHANGED <<parts, content, op, out, meetingsTable, modal, store, pending>>

\* one turn of the loop over cleanedLines
TeamsScanLine ==
    /\ op = "none"
    /\ scan.parser \in TeamsParsers
    /\ scan.i <= Len(scan.lines)
    /\ scan' = [scan EXCEPT !.st = teamsStep(scan.st, scan.lines[scan.i]), !.i = scan.i + 1]
    /\ UNCHANGED <<parts, content, op, out, meetingsTable, modal, store, pending>>

\* the loop is over: the final save, then the rendered text is returned
TeamsScanEnd ==
    /\ op = "none"
    /\ scan.parser \in TeamsParsers
    /\ scan.i > Len(scan.lines)
    /\ scan' = [scan EXCEPT !.st = [scan.st EXCEPT !.entries = teamsFinal(scan.st)]]
    /\ op' = scan.parser
    /\ out' = renderTeams(teamsFinal(scan.st))
    /\ UNCHANGED <<parts, content, meetingsTable, modal, store, pending>>

NextTeamsScan == TeamsScanStart \/ TeamsScanLine \/ TeamsScanEnd

SpecTeamsScan == InitTeamsScan /\ [][NextTeamsScan]_vars

\* parseTranscript on the inputs given to the participant extractor
SpecAgree == InitParticipants /\ [][ParseTranscript]_vars

\* the same loop over the inputs that hold a duplicate-speaker line
SpecTeamsRules == InitTeamsRules /\ [][NextTeamsScan]_vars

\* the return statement of parseTeamsTextTranscript on the entries in parts
RenderTeams ==
    /\ op = "none"
    /\ parts \in Seq(RenderEntries)
    /\ op' = "renderTeams"
    /\ out' = renderTeams(parts)
    /\ UNCHANGED <<parts, content, scan, meetingsTable, modal, store, pending>>

\* the return statement of parseVttTranscript on the entries in parts
RenderVtt ==
    /\ op = "none"
    /\ parts \in Seq(RenderEntries)
    /\ op' = "renderVtt"
    /\ out' = renderVtt(parts)
    /\ UNCHANGED <<parts, content, scan, meetingsTable, modal, store, pending>>

NextRender == RenderTeams \/ RenderVtt

SpecRender == InitRender /\ [][NextRender]_vars

\* addMeeting with a transcript of the given length and n action items: it
\* throws on a transcript over the limit, else it returns the new meeting's id
AddMeeting(length, n) ==
    /\ store.issued + 1 + n <= MaxIds
    /\ op' = "addMeeting"
    /\ content' = length
    /\ IF length > MAX_TRANSCRIPT_CHARS
       THEN /\ out' = "Error: Transcript exceeds 100KB limit for MVP"
            /\ store' = store
       ELSE /\ out' = store.issued + 1
            /\ store' = addMeeting(store, n)
    /\ UNCHANGED <<parts, scan, meetingsTable, modal, pending>>

AddActionItem(meetingId) ==
    /\ store.issued + 1 <= MaxIds
    /\ op' = "addActionItem"
    /\ content' = meetingId
    /\ out' = store.issued + 1
    /\ store' = addActionItem(store, meetingId)
    /\ UNCHANGED <<parts, scan, meetingsTable, modal, pending>>

DeleteActionItem(id) ==
    /\ op' = "deleteActionItem"
    /\ content' = id
    /\ out' = ""
    /\ store' = deleteActionItem(store, id)
    /\ UNCHANGED <<parts, scan, meetingsTable, modal, pending>>

DeleteMeeting(id) ==
    /\ op' = "deleteMeeting"
    /\ content' = id
    /\ out' = ""
    /\ store' = deleteMeeting(store, id)
    /\ UNCHANGED <<parts, scan, meetingsTable, modal, pending>>

StoredMeetingIds == {store.meetings[k].id : k \in 1..Len(store.meetings)}

\* the calls of the store: action items are added to stored meetings
NextStore ==
    \/ \E length \in {1, MAX_TRANSCRIPT_CHARS, MAX_TRANSCRIPT_CHARS + 1}, n \in 0..MaxNewItems :
           AddMeeting(length, n)
    \/ \E meetingId \in StoredMeetingIds : AddActionItem(meetingId)
    \/ \E id \in 1..MaxIds : DeleteActionItem(id)
    \/ \E id \in 1..MaxIds : DeleteMeeting(id)

SpecStore == InitStore /\ [][NextStore]_vars

\* a POST of content to the handler of api/upload.ts
UploadHandler ==
    /\ op = "none"
    /\ \E outcome \in InsertOutcomes :
          /\ out' = handler(content, outcome).response
          /\ meetingsTable' =
                 IF handler(content, outcome).row.some
                 THEN Append(meetingsTable, handler(content, outcome).row.val)
                 ELSE meetingsTable
    /\ op' = "handler"
    /\ UNCHANGED <<parts, content, scan, modal, store, pending>>

\* a POST of content to the handler of part_000
Part000Handler ==
    /\ op = "none"
    /\ \E outcome \in InsertOutcomes :
          /\ out' = part000_handler(content, outcome).response
          /\ meetingsTable' =
                 IF part000_handler(content, outcome).row.some
                 THEN Append(meetingsTable, part000_handler(content, outcome).row.val)
                 ELSE meetingsTable
    /\ op' = "part000_handler"
    /\ UNCHANGED <<parts, content, scan, modal, store, pending>>

NextHandler == UploadHandler \/ Part000Handler

SpecHandler == InitHandler /\ [][NextHandler]_vars

\* between two awaits a callback runs without interruption
AtAwait == pending.handleAnalyze.at \in {"rest", "uploadTranscript", "analyzeMeeting"}

endsWithLower(name, ext) == Len(name) >= Len(ext) /\ toLowerCase(From(name, Len(name) - Len(ext) + 1)) = ext

\* onDrop with no accepted file
OnDropNothing ==
    /\ AtAwait
    /\ Len(parts) < MaxInputs
    /\ parts' = Append(parts, "onDrop")
    /\ op' = "onDrop"
    /\ modal' = [modal EXCEPT !.error = Null]
    /\ UNCHANGED <<content, out, scan, meetingsTable, store, pending>>

\* onDrop(file) up to its await, or to its return
OnDrop(file) ==
    /\ AtAwait
    /\ pending.onDrop.file = NoFile
    /\ Len(parts) < MaxInputs
    /\ parts' = Append(parts, "onDrop")
    /\ op' = "onDrop"
    /\ IF file.size > MAX_BYTES
       THEN /\ modal' = [modal EXCEPT !.error = Some("File exceeds 10MB limit")]
            /\ pending' = pending
            /\ content' = content
       ELSE IF endsWithLower(file.name, ".docx")
       THEN /\ modal' = [modal EXCEPT !.error = Null, !.isProcessingFile = TRUE]
            /\ pending' = [pending EXCEPT !.onDrop = [file |-> file, title |-> modal.title]]
            /\ content' = file.text
       ELSE IF endsWithLower(file.name, ".pdf")
       THEN /\ modal' = [modal EXCEPT !.error = Some("PDF files not supported yet. Please copy the transcript text and use \"Paste text\" tab.")]
            /\ pending' = pending
            /\ content' = content
       ELSE /\ modal' = [modal EXCEPT !.error = Null]
            /\ pending' = [pending EXCEPT !.onDrop = [file |-> file, title |-> modal.title]]
            /\ content' = file.text
    /\ UNCHANGED <<out, scan, meetingsTable, store>>

\* onDrop after its await: the text of the file has been read, or reading
\* it has failed
OnDropRead ==
    /\ AtAwait
    /\ pending.onDrop.file # NoFile
    /\ op' = "onDrop"
    /\ pending' = [pending EXCEPT !.onDrop = NothingPending.onDrop]
    /\ \E read \in BOOLEAN :
          IF endsWithLower(pending.onDrop.file.name, ".docx")
          THEN IF read
               THEN modal' = [processContent([modal EXCEPT !.fileName = pending.onDrop.file.name],
                                                pending.onDrop.file.text, pending.onDrop.file.name,
                                                pending.onDrop.title)
                                    EXCEPT !.detectedFormat = "Word Document",
                                           !.isProcessingFile = FALSE]
               ELSE modal' = [modal EXCEPT !.error = Some("Failed to read Word document. Please try copying the text and pasting it."),
                                              !.isProcessingFile = FALSE]
          ELSE IF read
               THEN modal' = processContent([modal EXCEPT !.fileName = pending.onDrop.file.name],
                                               pending.onDrop.file.text, pending.onDrop.file.name,
                                               pending.onDrop.title)
               ELSE modal' = [modal EXCEPT !.error = Some("Failed to read file. Please try pasting the content instead.")]
    /\ UNCHANGED <<parts, content, out, scan, meetingsTable, store>>

HandlePaste(value) ==
    /\ AtAwait
    /\ Len(parts) < MaxInputs
    /\ parts' = Append(parts, "handlePaste")
    /\ op' = "handlePaste"
    /\ content' = value
    /\ modal' = handlePaste(modal, value)
    /\ UNCHANGED <<out, scan, meetingsTable, store, pending>>

\* the dialog is closed by the user
DialogClose ==
    /\ AtAwait
    /\ op' = "onOpenChange"
    /\ modal' = resetForm(modal)
    /\ UNCHANGED <<parts, content, out, scan, meetingsTable, store, pending>>

\* handleSubmit, and handleAnalyze up to its first await
HandleSubmit ==
    /\ pending.handleAnalyze.at = "rest"
    /\ canSubmit(modal)
    /\ Len(meetingsTable) < MaxRows
    /\ op' = "handleSubmit"
    /\ IF trim(orRaw(modal.parsedContent, modal.rawContent)) = ""
       THEN /\ modal' = [modal EXCEPT !.error = Some("Please provide a transcript")]
            /\ pending' = pending
       ELSE IF Len(trim(orRaw(modal.parsedContent, modal.rawContent))) < 50
       THEN /\ modal' = [modal EXCEPT !.error = Some("Transcript must be at least 50 characters")]
            /\ pending' = pending
       ELSE /\ modal' = [modal EXCEPT !.error = Null, !.submitting = TRUE, !.progress = "uploading"]
            /\ pending' = [pending EXCEPT !.handleAnalyze = analyzing(modal)]
    /\ UNCHANGED <<parts, content, out, scan, meetingsTable, store>>

\* the POST of uploadTranscript is served by the handler of api/upload.ts
ServeUpload ==
    /\ pending.handleAnalyze.at = "uploadTranscript"
    /\ pending.handleAnalyze.sent
    /\ pending.handleAnalyze.response = NoResponse
    /\ \E outcome \in InsertOutcomes :
          /\ meetingsTable' =
                 IF handler(contentToUpload(pending.handleAnalyze), outcome).row.some
                 THEN Append(meetingsTable, handler(contentToUpload(pending.handleAnalyze), outcome).row.val)
                 ELSE meetingsTable
          /\ pending' = [pending EXCEPT
                 !.handleAnalyze.response = handler(contentToUpload(pending.handleAnalyze), outcome).response,
                 !.handleAnalyze.meetingId =
                     IF handler(contentToUpload(pending.handleAnalyze), outcome).row.some
                     THEN Len(meetingsTable) + 1 ELSE 0]
    /\ UNCHANGED <<parts, content, op, out, scan, modal, store>>

\* the await of uploadTranscript ends
UploadTranscriptSettles ==
    /\ pending.handleAnalyze.at = "uploadTranscript"
    /\ ~pending.handleAnalyze.sent \/ pending.handleAnalyze.response # NoResponse
    /\ IF ~pending.handleAnalyze.sent
       THEN /\ modal' = failed(modal, "Transcript must be at least 50 characters")
            /\ pending' = [pending EXCEPT !.handleAnalyze = AtRest("failed")]
       ELSE IF pending.handleAnalyze.response.status # 201
       THEN /\ modal' = failed(modal, pending.handleAnalyze.response.error)
            /\ pending' = [pending EXCEPT !.handleAnalyze = AtRest("failed")]
       ELSE /\ modal' = [modal EXCEPT !.progress = "analyzing"]
            /\ pending' = [pending EXCEPT !.handleAnalyze.at = "analyzeMeeting"]
    /\ UNCHANGED <<parts, content, op, out, scan, meetingsTable, store>>

\* fetch rejects: the request or its response is lost
FetchFails ==
    /\ \/ pending.handleAnalyze.at = "uploadTranscript" /\ pending.handleAnalyze.sent
       \/ pending.handleAnalyze.at = "analyzeMeeting"
    /\ modal' = failed(modal, "Failed to fetch")
    /\ pending' = [pending EXCEPT !.handleAnalyze = AtRest("failed")]
    /\ UNCHANGED <<parts, content, op, out, scan, meetingsTable, store>>

AnalyzeResults == {"analysis", "no analysis", "rejected"}

\* the await of analyzeMeeting ends
AnalyzeMeetingSettles(result) ==
    /\ pending.handleAnalyze.at = "analyzeMeeting"
    /\ IF result = "rejected"
       THEN /\ modal' = failed(modal, "Request failed")
            /\ pending' = [pending EXCEPT !.handleAnalyze = AtRest("failed")]
       ELSE /\ modal' = [modal EXCEPT !.progress = "extracting"]
            /\ pending' = [pending EXCEPT !.handleAnalyze.at = "extracting",
                                          !.handleAnalyze.analysis = (result = "analysis")]
    /\ UNCHANGED <<parts, content, op, out, scan, meetingsTable, store>>

\* setProgress('done')
ProgressDone ==
    /\ pending.handleAnalyze.at = "extracting"
    /\ modal' = [modal EXCEPT !.progress = "done"]
    /\ pending' = [pending EXCEPT !.handleAnalyze.at = "done"]
    /\ UNCHANGED <<parts, content, op, out, scan, meetingsTable, store>>

\* the rest of the try block: the toast reads analysis, the form is reset
HandleAnalyzeEnds ==
    /\ pending.handleAnalyze.at = "done"
    /\ IF pending.handleAnalyze.analysis
       THEN /\ modal' = succeeded(modal)
            /\ pending' = [pending EXCEPT !.handleAnalyze = AtRest("resolved")]
       ELSE /\ modal' = failed(modal, "Cannot read properties of undefined (reading 'actionItemsCount')")
            /\ pending' = [pending EXCEPT !.handleAnalyze = AtRest("failed")]
    /\ UNCHANGED <<parts, content, op, out, scan, meetingsTable, store>>

NextModal ==
    \/ OnDropNothing
    \/ \E file \in Files : OnDrop(file)
    \/ OnDropRead
    \/ \E value \in Pastes : HandlePaste(value)
    \/ DialogClose
    \/ HandleSubmit
    \/ ServeUpload
    \/ UploadTranscriptSettles
    \/ FetchFails
    \/ \E result \in AnalyzeResults : AnalyzeMeetingSettles(result)
    \/ ProgressDone
    \/ HandleAnalyzeEnds

SpecModal == InitModal /\ [][NextModal]_vars

VttParsers == {"parseVttTranscript", "parseVttContent"}

\* a VTT parser is entered: the lines are split, the loop variables are fresh
VttScanStart ==
    /\ op = "none"
    /\ scan.parser = "none"
    /\ \E p \in VttParsers :
           scan' = [parser |-> p,
                    lines |-> split(content, "\n"),
                    i |-> 1,
                    st |-> IF p = "parseVttTranscript" THEN VttStart ELSE VttStartServer]
    /\ UNCHANGED <<parts, content, op, out, meetingsTable, modal, store, pending>>

\* one turn of the client parser's loop
VttScanLine ==
    /\ op = "none"
    /\ scan.parser = "parseVttTranscript"
    /\ scan.i <= Len(scan.lines)
    /\ scan' = [scan EXCEPT !.st = vttStep(scan.st, scan.lines[scan.i]), !.i = scan.i + 1]
    /\ UNCHANGED <<parts, content, op, out, meetingsTable, modal, store, pending>>

\* one turn of the server parser's loop
VttScanLineServer ==
    /\ op = "none"
    /\ scan.parser = "parseVttContent"
    /\ scan.i <= Len(scan.lines)
    /\ scan' = [scan EXCEPT !.st = vttStepServer(scan.st, scan.lines[scan.i]), !.i = scan.i + 1]
    /\ UNCHANGED <<parts, content, op, out, meetingsTable, modal, store, pending>>

\* the client loop is over: the remaining buffer is flushed, the text returned
VttScanEnd ==
    /\ op = "none"
    /\ scan.parser = "parseVttTranscript"
    /\ scan.i > Len(scan.lines)
    /\ scan' = [scan EXCEPT !.st = vttFlush(scan.st)]
    /\ op' = scan.parser
    /\ out' = renderVtt(vttFlush(scan.st).entries)
    /\ UNCHANGED <<parts, content, meetingsTable, modal, store, pending>>

\* the server loop is over: the remaining buffer is flushed, the text returned
VttScanEndServer ==
    /\ op = "none"
    /\ scan.parser = "parseVttContent"
    /\ scan.i > Len(scan.lines)
    /\ scan' = [scan EXCEPT !.st = vttFlushServer(scan.st)]
    /\ op' = scan.parser
    /\ out' = join(vttFlushServer(scan.st).textLines, "\n")
    /\ UNCHANGED <<parts, content, meetingsTable, modal, store, pending>>

NextVttScan ==
    \/ VttScanStart
    \/ VttScanLine
    \/ VttScanLineServer
    \/ VttScanEnd
    \/ VttScanEndServer

SpecVttScan == InitVttScan /\ [][NextVttScan]_vars

ValidateTranscript ==
    /\ op = "none"
    /\ op' = "validateTranscript"
    /\ out' = validateTranscript(content)
    /\ UNCHANGED <<parts, content, scan, meetingsTable, modal, store, pending>>

\* the upload handler up to the end of its tests on the request
HandlerGuards ==
    /\ op = "none"
    /\ op' = "handler"
    /\ out' = handlerGuards(content)
    /\ UNCHANGED <<parts, content, scan, meetingsTable, modal, store, pending>>

\* uploadTranscript up to the end of its guard
UploadTranscriptGuard ==
    /\ op = "none"
    /\ op' = "uploadTranscript"
    /\ out' = uploadTranscriptGuard(content)
    /\ UNCHANGED <<parts, content, scan, meetingsTable, modal, store, pending>>

NextValidate == ValidateTranscript \/ HandlerGuards \/ UploadTranscriptGuard

SpecValidate == InitValidate /\ [][NextValidate]_vars

NextDetect == DetectFormat \/ DetectTranscriptFormat

SpecDetect == InitDetect /\ [][NextDetect]_vars

NextParse ==
    \/ ParseVttTranscript
    \/ ParseVttContent
    \/ ParseTeamsTextTranscript
    \/ ParseTeamsTextContent
    \/ ParseTranscript
    \/ Reparse

SpecVtt == InitVtt /\ [][NextParse]_vars

SpecTeams == InitTeams /\ [][NextParse]_vars

NextParticipants == ExtractParticipants

SpecParticipants == InitParticipants /\ [][NextParticipants]_vars

Init ==
    \/ InitDetect
    \/ InitVtt
    \/ InitTeams
    \/ InitParticipants
    \/ InitValidate
    \/ InitSrt
    \/ InitTeamsScan
    \/ InitTeamsRules
    \/ InitRender
    \/ InitStore
    \/ InitHandler
    \/ InitModal
    \/ InitVttScan

Next ==
    \/ NextDetect
    \/ NextParse
    \/ NextParticipants
    \/ NextValidate
    \/ NextSrt
    \/ NextTeamsScan
    \/ NextVttScan
    \/ NextRender
    \/ NextStore
    \/ NextHandler
    \/ NextModal

Spec == Init /\ [][Next]_vars

---------------------------------------------------------------------------
(* Properties of format detection                                          *)

Detected == op \in {"detectFormat", "detectTranscriptFormat"}

Trimmed == trim(content)

ContentLines == split(content, "\n")

\* the line consists of digits only
IsCueIndex(line) == line # "" /\ \A i \in 1..Len(line) : Char(line, i) \in Digit

\* the line has the form HH:MM:SS,mmm --> HH:MM:SS,mmm
IsSrtTiming(line) ==
    /\ Len(line) = 29
    /\ matchTemplate(line, 1, "dd:dd:dd,ddd --> dd:dd:dd,ddd")

\* some line is a cue index and the next line an SRT timing line
HasSrtCue ==
    \E i \in 1..(Len(ContentLines) - 1) :
        IsCueIndex(ContentLines[i]) /\ IsSrtTiming(ContentLines[i + 1])

\* one of the three Teams phrases occurs in the content, in any letter case
HasTeamsPhrase ==
    \/ includesIgnoreCase(content, "ai-generated content may be incorrect")
    \/ includesIgnoreCase(content, "started transcription")
    \/ hasDuration(content)

\* some line of the trimmed content is M:SS or MM:SS and nothing else but
\* trailing blanks
HasStandaloneStamp ==
    \E i \in 1..Len(split(Trimmed, "\n")) :
        LET line == split(Trimmed, "\n")[i]
        IN  \/ (matchTemplate(line, 1, "d:dd") /\ trim(line) = SubSeq(line, 1, 4))
            \/ (matchTemplate(line, 1, "dd:dd") /\ trim(line) = SubSeq(line, 1, 5))

\* C1: each detector returns one of the four labels, and returns plain
\* exactly when none of its own vtt, srt and Teams rules matches the input.
C1_DetectionTotal ==
    /\ op = "detectFormat" =>
          /\ out \in Labels
          /\ out = "plain" <=>
                ~(vttSignature(Trimmed) \/ srtSignature(Trimmed) \/ teamsPatterns(Trimmed))
    /\ op = "detectTranscriptFormat" =>
          /\ out \in Labels
          /\ out = "plain" <=>
                ~(vttSignature(Trimmed) \/ srtSignature(Trimmed)
                    \/ teamsPatternsClient(Trimmed))

\* a three-line input that no rule matches has been classified by the fallback
C1_Witness ==
    /\ op = "detectFormat"
    /\ parts = <<"Hello", "1", "Hello">>
    /\ out = "plain"

\* C2: an input that does not start with WEBVTT and has a cue index line
\* followed by an HH:MM:SS,mmm --> HH:MM:SS,mmm line is labelled srt.
C2_SrtCueIsSrt ==
    (Detected /\ ~startsWith(Trimmed, "WEBVTT") /\ HasSrtCue) => out = "srt"

\* C3: an input whose trimmed content starts with WEBVTT, or that contains
\* ' --> ' and has a line beginning with '00:' (the first line included), is
\* labelled vtt.
C3_VttSignatureIsVtt ==
    (Detected /\ (\/ startsWith(Trimmed, "WEBVTT")
                  \/ /\ includes(content, " --> ")
                     /\ \E i \in 1..Len(ContentLines) : startsWith(ContentLines[i], "00:")))
        => out = "vtt"

\* C4: the rules are applied in the order vtt, srt, teams-text, plain: an
\* input matching the vtt rule is labelled vtt whatever else it matches, and an
\* input matching the srt rule but not the vtt rule is labelled srt even if it
\* holds a Teams phrase.
C4_FirstRuleWins ==
    Detected =>
        /\ vttSignature(Trimmed) => out = "vtt"
        /\ (~vttSignature(Trimmed) /\ srtSignature(Trimmed)) => out = "srt"

\* the vtt, srt and Teams rules all match and vtt has won
C4_Witness ==
    /\ op = "detectFormat"
    /\ parts = <<"1", "00:00:01,000 --> 00:00:02,000", "Bob started transcription">>
    /\ srtSignature(Trimmed)
    /\ vttSignature(Trimmed)
    /\ teamsPatterns(Trimmed)
    /\ out = "vtt"

---------------------------------------------------------------------------
(* Properties of the parsers and of parseTranscript                        *)

Cues ==
    { [line |-> CueAlice, name |-> "Alice", text |-> "Hello there"],
      [line |-> CueBob, name |-> "Bob", text |-> "Hi Alice"],
      [line |-> CueCarol, name |-> "Carol White", text |-> "10:30 works, right?"] }

IsCue(line) == \E c \in Cues : c.line = line

CueOf(line) == CHOOSE c \in Cues : c.line = line

\* the input is made of cues separated by blank lines, after an optional
\* WEBVTT header line
IsCueTranscript ==
    /\ \E i \in 1..Len(parts) : IsCue(parts[i])
    /\ \A i \in 1..Len(parts) :
          \/ (i = 1 /\ parts[i] = "WEBVTT")
          \/ parts[i] = ""
          \/ (IsCue(parts[i]) /\ (i < Len(parts) => parts[i + 1] = ""))

CueLine(line) == CueOf(line).name \o ": " \o CueOf(line).text

CueLines(cues) == [i \in 1..Len(cues) |-> CueLine(cues[i])]

\* one line 'Name: text' per cue, in input order, joined by single newlines
ExpectedCueText == join(CueLines(SelectSeq(parts, IsCue)), "\n")

\* C6: for an input made of <v Name>text</v> cues separated by blank lines,
\* the client and the server VTT parser return one line 'Name: text' per cue,
\* in input order, joined by single newlines.
C6_OneLinePerCue ==
    IsCueTranscript =>
        /\ op = "parseVttTranscript" => out.rawText = ExpectedCueText
        /\ op = "parseVttContent" => out = ExpectedCueText

\* the two-cue transcript of the specification has been parsed by the client
C6_Witness ==
    /\ op = "parseVttTranscript"
    /\ content = "WEBVTT\n\n<v Alice>Hello there</v>\n\n<v Bob>Hi Alice</v>"
    /\ IsCueTranscript
    /\ out.rawText = "Alice: Hello there\nBob: Hi Alice"

\* the speech turns the selected parser rendered into rawText
Turns(format, c) ==
    IF format = "vtt" THEN SelectSeq(parseVttEntries(c), HasText)
    ELSE SelectSeq(parseTeamsEntries(c), HasText)

\* C7: for a VTT or Teams-text input, the entries of parseTranscript are the
\* speech turns rendered in rawText: one entry per turn, in the same order,
\* with the turn's speaker, timestamp and text.
C7_EntriesAreTurns ==
    (op = "parseTranscript" /\ out.format \in {"vtt", "teams-text"}) =>
        out.entries = Turns(out.format, content)

AllHaveText(entries) == \A i \in 1..Len(entries) : trim(entries[i].text) # ""

\* C8: no entry built by the VTT parser, by the Teams-text parser or returned
\* by parseTranscript has a text that is empty after trimming.
C8_EntriesHaveText ==
    op \in {"parseVttTranscript", "parseTeamsTextTranscript", "parseTranscript", "reparse"} =>
        AllHaveText(out.entries)

\* the Title-Case name that starts the line (after an optional [timestamp])
\* and is immediately followed by a colon, or "" when the line has none
LineName(line) ==
    IF participantAt(line, 1) # 0
    THEN trim(SubSeq(line, bracketEnd(line, 1), participantAt(line, 1) - 1))
    ELSE ""

\* C9: extractParticipants returns a strictly ascending list without
\* denylisted tokens that holds every other Title-Case name standing at the
\* start of a line, after an optional [timestamp], right before a colon.
C9_ParticipantsComplete ==
    op = "extractParticipants" =>
        /\ \A i \in 1..(Len(out) - 1) : codeUnitLess(out[i], out[i + 1])
        /\ \A i \in 1..Len(out) : out[i] \notin Denylist
        /\ \A k \in 1..Len(ContentLines) :
              (LineName(ContentLines[k]) # "" /\ LineName(ContentLines[k]) \notin Denylist)
                  => \E i \in 1..Len(out) : out[i] = LineName(ContentLines[k])

\* C10: the pipeline run on a rawText that parseTranscript returned gives
\* that rawText back unchanged.
C10_Idempotent ==
    op = "reparse" => out.rawText = content

---------------------------------------------------------------------------
(* Properties of the validation guards                                     *)

\* the positions in parts of the runs that trimming keeps
Solid == {i \in 1..Len(parts) : parts[i].cls \notin TrimmedClasses}

FirstSolid == CHOOSE i \in Solid : \A j \in Solid : i <= j
LastSolid == CHOOSE i \in Solid : \A j \in Solid : i >= j

RECURSIVE SumRuns(_, _, _)
SumRuns(lo, hi, Classes) ==
    IF lo > hi THEN 0
    ELSE (IF parts[lo].cls \in Classes THEN parts[lo].n ELSE 0) + SumRuns(lo + 1, hi, Classes)

\* n: the length of the trimmed input
TrimmedLength == IF Solid = {} THEN 0 ELSE SumRuns(FirstSolid, LastSolid, CharClasses)

\* k: the characters of the trimmed input outside printable ASCII, \n, \r, \t
TrimmedNonPrintable ==
    IF Solid = {} THEN 0 ELSE SumRuns(FirstSolid, LastSolid, NonPrintableClasses)

NonEmptyString == content.type = "string" /\ parts # <<>>

TooShortError == Some("Transcript is too short (minimum 50 characters)")

\* the answer of the guard that ran says the transcript is too short
RejectedTooShort ==
    \/ (op = "validateTranscript" /\ ~out.valid /\ out.error = TooShortError)
    \/ (op = "handler" /\ out.status = 400
            /\ startsWith(out.error, "Transcript must be at least 50 characters"))
    \/ (op = "uploadTranscript" /\ out = "ApiError: Transcript must be at least 50 characters")

\* C11: validateTranscript, the upload handler and uploadTranscript reject a
\* non-empty string as too short exactly when its trimmed length is below 50:
\* a trimmed length of 50 passes the test, one of 49 does not.
C11_LengthBoundary ==
    (op \in {"validateTranscript", "handler", "uploadTranscript"} /\ NonEmptyString) =>
        (RejectedTooShort <=> TrimmedLength < 50)

\* the handler has let a string pass whose trimmed length is exactly 50
C11_Witness ==
    /\ op = "handler"
    /\ parts = <<[cls |-> "blank", n |-> 5], [cls |-> "text", n |-> 49], [cls |-> "text", n |-> 1]>>
    /\ TrimmedLength = 50
    /\ out = Accepted

\* the error validateTranscript is to give: the first check that fails
FirstFailingCheck ==
    IF ~NonEmptyString THEN "No transcript content provided"
    ELSE IF TrimmedLength < 50 THEN "Transcript is too short (minimum 50 characters)"
    ELSE IF TrimmedLength > 10485760 THEN "Transcript exceeds 10MB limit"
    ELSE "File appears to be binary. Please upload a text file or paste the transcript text."

\* C12: validateTranscript answers valid exactly for a non-empty string with
\* 50 <= n <= 10 MiB and 10 * k <= n, and otherwise gives the one error of
\* the first failing check: missing, too short, too large, likely binary.
C12_ValidIff ==
    op = "validateTranscript" =>
        /\ out.valid <=> /\ NonEmptyString
                          /\ 50 <= TrimmedLength
                          /\ TrimmedLength <= 10485760
                          /\ 10 * TrimmedNonPrintable <= TrimmedLength
        /\ out.valid => out.error = Null
        /\ ~out.valid => out.error = Some(FirstFailingCheck)

\* a string with exactly 10% of characters that are not printable is valid
C12_Witness ==
    /\ op = "validateTranscript"
    /\ parts = <<[cls |-> "binary", n |-> 5], [cls |-> "text", n |-> 45]>>
    /\ out.valid

---------------------------------------------------------------------------
(* Properties of the SRT parsers                                           *)

\* the blocks of the input: its maximal runs of lines that are not empty (the
\* lines of the input come without blanks at their ends)
RECURSIVE BlocksFrom(_, _)
BlocksFrom(i, block) ==
    IF i > Len(parts) THEN (IF block = <<>> THEN <<>> ELSE <<block>>)
    ELSE IF parts[i] = "" THEN (IF block = <<>> THEN <<>> ELSE <<block>>) \o BlocksFrom(i + 1, <<>>)
    ELSE BlocksFrom(i + 1, Append(block, parts[i]))

LongBlock(block) == Len(block) >= 3

\* the lines of a block from index 2 on, joined by single spaces
BlockText(block) == join(SubSeq(block, 3, Len(block)), " ")

TextsOf(blocks) == [i \in 1..Len(blocks) |-> BlockText(blocks[i])]

\* one entry per block of at least 3 lines, none for a shorter block
ExpectedSrtEntries == TextsOf(SelectSeq(BlocksFrom(1, <<>>), LongBlock))

\* C13: in the client and in the server SRT parser a block of fewer than 3
\* lines contributes nothing and a block of at least 3 lines contributes the
\* one entry made of its lines from index 2 on joined by single spaces; the
\* entries come out one per line.
C13_SrtBlocks ==
    /\ op = "parseSrtTranscript" =>
          /\ out.entries = ExpectedSrtEntries
          /\ out.rawText = join(ExpectedSrtEntries, "\n")
    /\ op = "parseSrtContent" => out = join(ExpectedSrtEntries, "\n")

---------------------------------------------------------------------------
(* Properties of the Teams-text loop                                       *)

\* the lines that show a timestamp, alone or after a speaker name, with the
\* timestamp each shows
StampLines ==
    { [line |-> "1:15", stamp |-> "1:15"],
      [line |-> "5 minutes 3 seconds", stamp |-> "5:03"],
      [line |-> "Bob 1 minute 5 seconds", stamp |-> "1:05"] }

ShowsStamp(line) == \E r \in StampLines : r.line = line

StampOf(line) == (CHOOSE r \in StampLines : r.line = line).stamp

\* the timestamp seen most recently in the first k lines
RECURSIVE LastStamp(_, _)
LastStamp(lines, k) ==
    IF k = 0 THEN Null
    ELSE IF ShowsStamp(lines[k]) THEN Some(StampOf(lines[k]))
    ELSE LastStamp(lines, k - 1)

\* the loop or the final save has just emitted an entry
Emits == scan.parser \in TeamsParsers /\ Len(scan'.st.entries) > Len(scan.st.entries)

Emitted == scan'.st.entries[Len(scan'.st.entries)]

TwoUnderOneStamp ==
    << Entry(Some("Alice"), Some("1:15"), "First remark."),
       Entry(Some("Bob"), Some("1:15"), "Second remark.") >>

\* C14: an entry the Teams-text parser emits carries the timestamp seen most
\* recently in the lines read before it is emitted, and none only if none was
\* seen; the two entries of Alice and Bob under the one stamp 1:15 both carry it.
C14_StickyTimestamp ==
    /\ [][Emits => Emitted.timestamp = LastStamp(scan.lines, scan.i - 1)]_vars
    /\ [](parts = StickyLines /\ op # "none" => scan.st.entries = TwoUnderOneStamp)

\* a turn of the loop is reading Line
ReadsLine == scan.parser \in TeamsParsers /\ scan.i <= Len(scan.lines)

Line == scan.lines[scan.i]

\* the rendered text, one block per entry
Blocks == IF out = "" THEN <<>> ELSE split(out, "\n\n")

RenderedStamp(e) == IF Truthy(e.timestamp) THEN "[" \o e.timestamp.val \o "] " ELSE ""

\* C17: a long-form timestamp, alone on its line or after a speaker name, is
\* stored as N:SS with the seconds padded to two digits and a short-form one is
\* stored unchanged; an entry is rendered with the timestamp as it is stored.
C17_DisplayForm ==
    /\ [][ReadsLine /\ ShowsStamp(Line) =>
              scan'.st.currentTimestamp = Some(StampOf(Line))]_vars
    /\ [](op # "none" =>
              /\ Len(Blocks) = Len(scan.st.entries)
              /\ \A k \in 1..Len(scan.st.entries) :
                     startsWith(Blocks[k], RenderedStamp(scan.st.entries[k])))

C17_Witness ==
    /\ op = "parseTeamsTextContent"
    /\ parts = <<"Bob 1 minute 5 seconds", "First remark.", "5 minutes 3 seconds", "First remark.">>
    /\ scan.st.entries = <<Entry(Some("Bob"), Some("5:03"), "First remark. First remark.")>>
    /\ out = "[5:03] Bob: First remark. First remark."

\* the lines made of Title-Case tokens, with or without a timestamp after them
SpeakerLines == {"Alice", "Bob", "Bob 1 minute 5 seconds"}

LowerCaseLine == "we met at 5:30"

\* C18: the current speaker is only set from a line of Title-Case tokens,
\* optionally followed by a timestamp; a line of lower-case words that ends
\* with a timestamp is not taken as a speaker name, it is text.
C18_SpeakerFromTitleCase ==
    /\ [][ReadsLine /\ scan'.st.currentSpeaker # scan.st.currentSpeaker =>
              Line \in SpeakerLines]_vars
    /\ [][ReadsLine /\ Line = LowerCaseLine =>
              scan'.st.textBuffer = Append(scan.st.textBuffer, LowerCaseLine)]_vars

\* the lines that are a timestamp and nothing else
BareStamps == {"1:15", "5 minutes 3 seconds"}

\* C19: a bare timestamp line changes only the current timestamp: no entry is
\* emitted, the text buffer is neither extended nor flushed, and the current
\* speaker stays.
C19_BareStampFrame ==
    [][ReadsLine /\ Line \in BareStamps =>
          /\ scan'.st.entries = scan.st.entries
          /\ scan'.st.textBuffer = scan.st.textBuffer
          /\ scan'.st.currentSpeaker = scan.st.currentSpeaker
          /\ scan'.st.currentTimestamp \in {Some("1:15"), Some("5:03")}]_vars

\* a bare timestamp has been read while Alice's text was buffered
C19_Witness ==
    /\ scan.parser = "parseTeamsTextTranscript"
    /\ scan.lines = <<"Alice", "First remark.", "5 minutes 3 seconds", "First remark.">>
    /\ scan.i = 4
    /\ scan.st = [entries |-> <<>>,
                  currentSpeaker |-> Some("Alice"),
                  currentTimestamp |-> Some("5:03"),
                  textBuffer |-> <<"First remark.">>]

\* the lines that hold one of the two phrases, in whatever case
PhraseLines == {"AI-generated content may be incorrect", "Bob started transcription 1:15"}

OtherLine(line) == line \notin PhraseLines

\* no word of a phrase line is in the text
PhraseFree(text) ==
    /\ ~includes(text, "incorrect")
    /\ ~includes(text, "transcription")

InInput(line) == \E k \in 1..Len(parts) : parts[k] = line

\* C20: the lines holding one of the two phrases are removed before the scan
\* and the other lines are scanned in their order; nothing of a removed line is
\* in an entry's text or in the buffer, and a removed line gives neither the
\* speaker nor the timestamp.
C20_PhraseLinesRemoved ==
    scan.parser \in TeamsParsers =>
        /\ scan.lines = SelectSeq(parts, OtherLine)
        /\ \A k \in 1..Len(scan.st.entries) : PhraseFree(scan.st.entries[k].text)
        /\ \A k \in 1..Len(scan.st.textBuffer) : PhraseFree(scan.st.textBuffer[k])
        /\ PhraseFree(scan.st.currentSpeaker.val)
        /\ scan.st.currentTimestamp = Some("1:15") => InInput("1:15")
        /\ op # "none" => PhraseFree(out)

C20_Witness ==
    /\ op = "parseTeamsTextTranscript"
    /\ parts = <<"Alice", "AI-generated content may be incorrect", "First remark.",
                 "Bob started transcription 1:15">>
    /\ scan.lines = <<"Alice", "First remark.">>
    /\ out = "Alice: First remark."

---------------------------------------------------------------------------
(* Properties of the VTT loops                                             *)

\* a turn of a VTT loop is reading VttLine
VttReads == scan.parser \in VttParsers /\ scan.i <= Len(scan.lines)

VttLine == scan.lines[scan.i]

\* what the parser has emitted: the entries of the client parser, the text
\* lines of the server parser
VttEmitted(st) == IF scan.parser = "parseVttTranscript" THEN st.entries ELSE st.textLines

\* the buffer of st as one emitted item under the current speaker of st, its
\* pieces joined by single spaces
VttItem(st) ==
    IF scan.parser = "parseVttTranscript"
    THEN Entry(st.currentSpeaker, Null, join(st.buffer, " "))
    ELSE IF st.currentSpeaker.some
         THEN st.currentSpeaker.val \o ": " \o join(st.buffer, " ")
         ELSE join(st.buffer, " ")

\* what has been emitted once the buffer of st, if any, is flushed
VttFlushed(st) ==
    IF st.buffer = <<>> THEN VttEmitted(st) ELSE Append(VttEmitted(st), VttItem(st))

\* the blank line and the metadata lines
FlushLines == {"", "WEBVTT", CueNote}

\* C15: in the client and in the server VTT parser a blank line or a metadata
\* line flushes the buffer: the text buffered before it is emitted as its own
\* entry under the current speaker, joined by single spaces, and the buffer is
\* empty afterwards.
C15_BlankOrMetadataFlushes ==
    [][VttReads /\ VttLine \in FlushLines =>
          /\ VttEmitted(scan'.st) = VttFlushed(scan.st)
          /\ scan'.st.buffer = <<>>]_vars

\* the lines with a speaker tag
TagLines == {CueAlice, CueBob}

\* the loop is over and the parser returns
VttEnds == scan.parser \in VttParsers /\ scan.i > Len(scan.lines) /\ op' # "none"

\* C16: a line with a new speaker tag first emits the buffered text under the
\* previous speaker, then the tag's name is the current speaker and the text
\* after the tag, without the closing tag, is the new buffer; a continuation
\* line without a tag is buffered under the current speaker; at end of input
\* the buffer that is left is emitted.
C16_TagFlushesPrevious ==
    /\ [][VttReads /\ VttLine \in TagLines =>
              /\ VttEmitted(scan'.st) = VttFlushed(scan.st)
              /\ scan'.st.currentSpeaker = Some(CueOf(VttLine).name)
              /\ scan'.st.buffer = <<CueOf(VttLine).text>>]_vars
    /\ [][VttReads /\ VttLine = CueMore =>
              /\ VttEmitted(scan'.st) = VttEmitted(scan.st)
              /\ scan'.st.currentSpeaker = scan.st.currentSpeaker
              /\ scan'.st.buffer = Append(scan.st.buffer, CueMore)]_vars
    /\ [][VttEnds => VttEmitted(scan'.st) = VttFlushed(scan.st)]_vars

\* Bob's tag has been read after Alice's cue and her continuation line
C16_Witness ==
    /\ scan.parser = "parseVttTranscript"
    /\ scan.lines = <<CueAlice, CueMore, CueBob, CueMore>>
    /\ scan.i = 4
    /\ scan.st = [entries |-> <<Entry(Some("Alice"), Null, "Hello there more text")>>,
                  currentSpeaker |-> Some("Bob"),
                  buffer |-> <<"Hi Alice">>]

---------------------------------------------------------------------------
(* Properties of the order of the Teams-text rules                         *)

\* Line repeats the name of the current speaker before a digit
RepeatsSpeaker == Line = DuplicateLine /\ scan.st.currentSpeaker = Some("Alice")

\* Line is for the last rule: no timestamp, no speaker line, no repeated name
IsContent == Line \notin BareStamps /\ Line \notin SpeakerLines /\ ~RepeatsSpeaker

\* C21: the rules are tried in the order bare timestamp, speaker line,
\* duplicate-speaker line, content: a speaker line that repeats the current
\* speaker's name before its timestamp is still a speaker line; a line that is
\* neither and repeats the current speaker's name before a digit is dropped
\* and changes nothing; every other line is appended to the buffer.
C21_RuleOrder ==
    /\ [][ReadsLine /\ Line = "Bob 1 minute 5 seconds" =>
              /\ scan'.st.currentSpeaker = Some("Bob")
              /\ scan'.st.currentTimestamp = Some("1:05")]_vars
    /\ [][ReadsLine /\ RepeatsSpeaker => scan'.st = scan.st]_vars
    /\ [][ReadsLine /\ IsContent =>
              scan'.st = [scan.st EXCEPT !.textBuffer = Append(scan.st.textBuffer, Line)]]_vars

\* the line that repeats Alice's name has been dropped while her text was buffered
C21_Witness ==
    /\ scan.parser = "parseTeamsTextContent"
    /\ scan.lines = <<"Alice", "First remark.", DuplicateLine, "Bob 1 minute 5 seconds">>
    /\ scan.i = 4
    /\ scan.st = [entries |-> <<>>,
                  currentSpeaker |-> Some("Alice"),
                  currentTimestamp |-> Null,
                  textBuffer |-> <<"First remark.">>]

---------------------------------------------------------------------------
(* Properties of the renderers                                             *)

\* the entries from k on that have a text
RECURSIVE WithText(_)
WithText(k) ==
    IF k > Len(parts) THEN <<>>
    ELSE IF parts[k].text = "" THEN WithText(k + 1)
    ELSE <<parts[k]>> \o WithText(k + 1)

\* the pieces of a Teams-text entry that are present, in their order
TeamsPieces(e) ==
    (IF e.timestamp.some THEN <<"[" \o e.timestamp.val \o "]">> ELSE <<>>)
        \o (IF e.speaker.some THEN <<e.speaker.val \o ":">> ELSE <<>>)
        \o <<e.text>>

TeamsBlocks(es) == [k \in 1..Len(es) |-> join(TeamsPieces(es[k]), " ")]

VttPieces(e) == (IF e.speaker.some THEN <<e.speaker.val \o ":">> ELSE <<>>) \o <<e.text>>

VttBlocks(es) == [k \in 1..Len(es) |-> join(VttPieces(es[k]), " ")]

\* C22: entries without text are left out; a Teams-text entry is rendered as
\* its timestamp in brackets if present, its speaker and a colon if present,
\* and its text, joined by single spaces, the entries joined by a blank line;
\* a VTT entry is rendered as speaker, colon and text or as the bare text,
\* never with a timestamp, the entries joined by one newline, in entry order.
C22_Rendering ==
    /\ op = "renderTeams" => out = join(TeamsBlocks(WithText(1)), "\n\n")
    /\ op = "renderVtt" => out = join(VttBlocks(WithText(1)), "\n")

C22_Witness ==
    /\ op = "renderTeams"
    /\ parts = << Entry(Some("Alice"), Some("1:15"), "Hello there"),
                  Entry(Some("Alice"), Null, ""),
                  Entry(Null, Null, "Hello there") >>
    /\ out = "[1:15] Alice: Hello there\n\nHello there"

---------------------------------------------------------------------------
(* Properties of the entries of the Teams-text parser                      *)

\* the name a speaker line gives
NameOf(line) == IF line = "Alice" THEN "Alice" ELSE "Bob"

\* the last speaker line among the first k lines, 0 when there is none
RECURSIVE LastSpeakerLine(_, _)
LastSpeakerLine(lines, k) ==
    IF k = 0 THEN 0
    ELSE IF lines[k] \in SpeakerLines THEN k
    ELSE LastSpeakerLine(lines, k - 1)

\* the speaker of the lines after speaker line j: nobody when j = 0
SpeakerAt(lines, j) == IF j = 0 THEN Null ELSE Some(NameOf(lines[j]))

\* the content lines among lines j+1 .. k, which follow speaker line j
RECURSIVE ContentBetween(_, _, _, _)
ContentBetween(lines, j, k, speaker) ==
    IF j >= k THEN <<>>
    ELSE IF \/ lines[j + 1] \in BareStamps
            \/ (lines[j + 1] = DuplicateLine /\ speaker = Some("Alice"))
         THEN ContentBetween(lines, j + 1, k, speaker)
    ELSE <<lines[j + 1]>> \o ContentBetween(lines, j + 1, k, speaker)

\* the entry that the lines read so far leave to be emitted
SegmentSpeaker == SpeakerAt(scan.lines, LastSpeakerLine(scan.lines, scan.i - 1))

SegmentText ==
    join(ContentBetween(scan.lines, LastSpeakerLine(scan.lines, scan.i - 1), scan.i - 1,
                        SegmentSpeaker), " ")

\* C23: the text of an emitted entry is made of the content lines between its
\* speaker line and the next speaker line; content lines before the first
\* speaker line are emitted as an entry without speaker when that speaker line
\* is read, and are not attributed to a named speaker.
C23_TextBetweenSpeakerLines ==
    /\ [][Emits => Emitted.speaker = SegmentSpeaker /\ Emitted.text = SegmentText]_vars
    /\ [][ReadsLine /\ Line \in SpeakerLines /\ scan.st.textBuffer # <<>> => Emits]_vars

\* the last content line among the first k lines, 0 when there is none
RECURSIVE LastContentLine(_, _, _)
LastContentLine(lines, k, speaker) ==
    IF k = 0 THEN 0
    ELSE IF \/ lines[k] \in BareStamps
            \/ lines[k] \in SpeakerLines
            \/ (lines[k] = DuplicateLine /\ speaker = Some("Alice"))
         THEN LastContentLine(lines, k - 1, speaker)
    ELSE k

\* a line before line k shows the timestamp ts
ShownBefore(lines, k, ts) ==
    \E j \in 1..(k - 1) : ShowsStamp(lines[j]) /\ StampOf(lines[j]) = ts

\* C24: the timestamp of an emitted entry appears in the input before the
\* entry's text ends: a timestamp line after the last content line of an
\* utterance does not become the timestamp of that utterance.
C24_StampPrecedesText ==
    [][Emits /\ Emitted.timestamp.some =>
          ShownBefore(scan.lines,
                      LastContentLine(scan.lines, scan.i - 1, scan.st.currentSpeaker),
                      Emitted.timestamp.val)]_vars

---------------------------------------------------------------------------
(* Properties of the result of parseTranscript                             *)

IsParticipant(name) == \E k \in 1..Len(out.participants) : out.participants[k] = name

IsSpeaker(name) == \E k \in 1..Len(out.entries) : out.entries[k].speaker = Some(name)

\* C25: in the result of parseTranscript every speaker of an entry is a
\* participant or a denylisted token, and every participant is the speaker of
\* at least one entry.
C25_ParticipantsAgree ==
    op = "parseTranscript" =>
        /\ \A k \in 1..Len(out.entries) :
               out.entries[k].speaker.some =>
                   \/ IsParticipant(out.entries[k].speaker.val)
                   \/ out.entries[k].speaker.val \in Denylist
        /\ \A k \in 1..Len(out.participants) : IsSpeaker(out.participants[k])

---------------------------------------------------------------------------
(* Properties of the client store                                          *)

\* the ids of the stored action items of meeting id, as a set
ItemsOf(state, id) ==
    {state.actionItems[k].id : k \in {j \in 1..Len(state.actionItems) :
                                          state.actionItems[j].meetingId = id}}

Elements(xs) == {xs[k] : k \in 1..Len(xs)}

NoRepeats(xs) == \A j, k \in 1..Len(xs) : xs[j] = xs[k] => j = k

\* the meetings other than id, and the action items of other meetings, in order
RECURSIVE OtherMeetings(_, _, _)
OtherMeetings(ms, k, id) ==
    IF k > Len(ms) THEN <<>>
    ELSE (IF ms[k].id = id THEN <<>> ELSE <<ms[k]>>) \o OtherMeetings(ms, k + 1, id)

RECURSIVE OtherItems(_, _, _)
OtherItems(items, k, id) ==
    IF k > Len(items) THEN <<>>
    ELSE (IF items[k].meetingId = id THEN <<>> ELSE <<items[k]>>) \o OtherItems(items, k + 1, id)

\* C30: after any sequence of addMeeting, addActionItem for a stored meeting,
\* deleteActionItem and deleteMeeting, the actionItemIds of every meeting are
\* exactly the ids of the stored action items of that meeting; deleteMeeting
\* removes the meeting and its action items and leaves the others as they were.
C30_StoreIntegrity ==
    /\ [](\A k \in 1..Len(store.meetings) :
              /\ Elements(store.meetings[k].actionItemIds) = ItemsOf(store, store.meetings[k].id)
              /\ NoRepeats(store.meetings[k].actionItemIds))
    /\ [][op' = "deleteMeeting" =>
              /\ store'.meetings = OtherMeetings(store.meetings, 1, content')
              /\ store'.actionItems = OtherItems(store.actionItems, 1, content')]_vars

\* meeting 1 and its action item 2 were deleted, meeting 3 and its item 4 stay
C30_Witness ==
    /\ op = "deleteMeeting"
    /\ content = 1
    /\ store.meetings = <<[id |-> 3, actionItemIds |-> <<4>>]>>
    /\ store.actionItems = <<[id |-> 4, meetingId |-> 3, order |-> 0]>>
    /\ store.issued = 4

---------------------------------------------------------------------------
(* Properties of the upload handlers                                       *)

\* C27: every transcript an upload handler has inserted into meetings has at
\* least 50 and at most MAX_FILE_SIZE characters, and a request answered with
\* a 4xx status inserts nothing.
C27_StoredWithinLimits ==
    /\ \A k \in 1..Len(meetingsTable) :
           /\ Len(meetingsTable[k]) >= MIN_TRANSCRIPT_LENGTH
           /\ Len(meetingsTable[k]) <= MAX_FILE_SIZE
    /\ (op \in {"handler", "part000_handler"} /\ out.status \in 400..499) => meetingsTable = <<>>

---------------------------------------------------------------------------
(* Properties of the upload modal                                          *)

\* C26: when the upload endpoint has stored the text the modal sent after
\* normalizing an input, the stored transcript equals the normalized text the
\* modal previewed (parsedContent).
C26_ServerStoresPreview ==
    (/\ pending.handleAnalyze.at = "uploadTranscript"
     /\ pending.handleAnalyze.response.status = 201
     /\ pending.handleAnalyze.parsedContent # "")
        => meetingsTable[pending.handleAnalyze.meetingId] = pending.handleAnalyze.parsedContent

\* the most recently provided input is a dropped file that has been read (the
\* modal shows its name) and that validateTranscript does not pass
LatestFileRejected ==
    /\ parts # <<>>
    /\ parts[Len(parts)] = "onDrop"
    /\ \E file \in Files : file.name = modal.fileName /\ file.text = content
    /\ pending.onDrop.file = NoFile
    /\ ~validateTranscript(StringValue(runsOfText(content))).valid

\* C28: when the most recently provided input is a file rejected by
\* validateTranscript, a handleSubmit that goes on to upload submits nothing
\* but that input: no content of an earlier input is uploaded under the new
\* file name.
C28_LatestInputSubmitted ==
    (/\ op = "handleSubmit"
     /\ pending.handleAnalyze.at = "uploadTranscript"
     /\ LatestFileRejected)
        => contentToUpload(pending.handleAnalyze) \in {content, parseTranscript(content).rawText}

\* one step of a run of handleAnalyze: it starts by showing uploading, moves
\* to analyzing only on a 201 response that carries a meeting id, then to
\* extracting, then to done, and ends either resolved or failed; a failed run
\* shows an error and is back at idle
RunStep ==
    \/ /\ pending.handleAnalyze.at = "rest"
       /\ pending'.handleAnalyze.at = "uploadTranscript"
       /\ modal'.progress = "uploading"
       /\ modal'.submitting
    \/ /\ pending.handleAnalyze.at = "uploadTranscript"
       /\ pending'.handleAnalyze.at = "analyzeMeeting"
       /\ pending.handleAnalyze.response.status = 201
       /\ pending.handleAnalyze.meetingId \in 1..Len(meetingsTable)
       /\ modal'.progress = "analyzing"
    \/ /\ pending.handleAnalyze.at = "analyzeMeeting"
       /\ pending'.handleAnalyze.at = "extracting"
       /\ modal'.progress = "extracting"
    \/ /\ pending.handleAnalyze.at = "extracting"
       /\ pending'.handleAnalyze.at = "done"
       /\ modal'.progress = "done"
    \/ /\ pending.handleAnalyze.at = "done"
       /\ pending'.handleAnalyze.at = "rest"
       /\ pending'.handleAnalyze.outcome = "resolved"
       /\ ~modal'.submitting
    \/ /\ pending'.handleAnalyze.at = "rest"
       /\ pending'.handleAnalyze.outcome = "failed"
       /\ modal'.progress = "idle"
       /\ modal'.error.some
       /\ ~modal'.submitting

\* C29: in a run of handleAnalyze, analyzeMeeting is requested only after
\* uploadTranscript resolved with a meeting id; progress is set to uploading,
\* analyzing, extracting, done in that order, none skipped; a failure sets
\* progress to idle and shows an error; and submitting is false whenever no
\* run is under way.
C29_HandleAnalyzeRun ==
    /\ [][pending'.handleAnalyze.at # pending.handleAnalyze.at => RunStep]_vars
    /\ [](pending.handleAnalyze.at = "analyzeMeeting" => pending.handleAnalyze.meetingId > 0)
    /\ [](pending.handleAnalyze.at = "rest" => ~modal.submitting)

\* a run has gone through all its steps: the row is stored, the form is reset
C29_Witness ==
    /\ pending.handleAnalyze.at = "rest"
    /\ pending.handleAnalyze.outcome = "resolved"
    /\ meetingsTable # <<>>
    /\ modal.progress = "idle"
    /\ ~modal.submitting

=============================================================================
